---- MODULE Spec2Model ----
(***************************************************************************)
(* A model of roqoqo-iqm: the translator (interface.rs), the legality      *)
(* checks (backend.rs, devices/deneb_device.rs), the job lifecycle and the *)
(* result reassembly (backend.rs).                                         *)
(***************************************************************************)
EXTENDS Integers, Sequences, FiniteSets, TLC

VARIABLES
    call,       \* call_circuit: the operations consumed so far, its arguments and its locals
    ls,         \* DenebDevice::validate_circuit_load_store: operations scanned and its locals
    rr,         \* results_to_registers: its arguments and its locals
    poll,       \* Backend::wait_for_results: the job, the clock and the replies so far
    sub         \* Backend::submit_circuit_batch: the backend, the batch and its locals

vars == <<call, ls, rr, poll, sub>>

\* ------------------------------------------------------------------ bounds
\* Longest operation stream handed to call_circuit.
MaxOps == 3
\* Largest qubit index an operation of an input circuit names.
MaxQubit == 1
\* Largest shot count a measurement pragma of an input circuit sets.
MaxShots == 2
\* Longest declared register of an input circuit.
MaxRegLen == 2

Qubits == 0..MaxQubit
RegNames == {"ro", "rb"}
ShotCounts == 1..MaxShots
RegLens == 1..MaxRegLen

\* Option<T>
None == <<>>
Some(x) == <<x>>

\* ------------------------------------------------------------------ operations
\* roqoqo operations, one record shape for all: k the hqslang name, q the qubit
\* (or control), t the target qubit or the resonator mode, r the register name,
\* i the readout index, n a count (register length, shots, repetitions), out the
\* is_output flag, sym a symbolic (non-float) parameter, map the qubit_mapping
\* of PragmaRepeatedMeasurement, body the circuit of a PragmaLoop.
Op(k, q, t, r, i, n, out, sym, map, body) ==
    [k |-> k, q |-> q, t |-> t, r |-> r, i |-> i, n |-> n, out |-> out,
     sym |-> sym, map |-> map, body |-> body]

DefinitionBit(name, length, is_output) ==
    Op("DefinitionBit", 0, 0, name, 0, length, is_output, FALSE, None, <<>>)
MeasureQubit(qubit, readout, readout_index) ==
    Op("MeasureQubit", qubit, 0, readout, readout_index, 0, FALSE, FALSE, None, <<>>)
PragmaSetNumberOfMeasurements(number_measurements, readout) ==
    Op("PragmaSetNumberOfMeasurements", 0, 0, readout, 0, number_measurements,
       FALSE, FALSE, None, <<>>)
PragmaRepeatedMeasurement(readout, number_measurements, qubit_mapping) ==
    Op("PragmaRepeatedMeasurement", 0, 0, readout, 0, number_measurements,
       FALSE, FALSE, qubit_mapping, <<>>)
PragmaLoop(repetitions, symbolic, circuit) ==
    Op("PragmaLoop", 0, 0, "", 0, repetitions, FALSE, symbolic, None, circuit)
RotateXY(qubit, symbolic) ==
    Op("RotateXY", qubit, 0, "", 0, 0, FALSE, symbolic, None, <<>>)
ControlledPauliZ(control, target) ==
    Op("ControlledPauliZ", control, target, "", 0, 0, FALSE, FALSE, None, <<>>)
CZQubitResonator(qubit, mode) ==
    Op("CZQubitResonator", qubit, mode, "", 0, 0, FALSE, FALSE, None, <<>>)
SingleExcitationLoad(qubit, mode) ==
    Op("SingleExcitationLoad", qubit, mode, "", 0, 0, FALSE, FALSE, None, <<>>)
SingleExcitationStore(qubit, mode) ==
    Op("SingleExcitationStore", qubit, mode, "", 0, 0, FALSE, FALSE, None, <<>>)
\* an operation with no arguments the model reads: PragmaGlobalPhase, Hadamard, ...
Plain(hqslang) ==
    Op(hqslang, 0, 0, "", 0, 0, FALSE, FALSE, None, <<>>)

\* ------------------------------------------------------------------ interface.rs
\* An IqmInstruction: its name, its qubit labels and args["key"] (the register a
\* `measure` writes to; "" when args holds no key). The angle arguments of `prx`
\* are floating point values the model does not compute.
IqmInstruction(name, qubits, key) == [name |-> name, qubits |-> qubits, key |-> key]

\* "QB<q+1>": the label is the pair of the prefix and the 1-based number.
ConvertQubitNameQoqoToIqm(qoqo_qubit) == <<"QB", qoqo_qubit + 1>>

\* "COMP_R", whatever the resonator index.
ConvertResonatorNameQoqoToIqm(resonator_index) == <<"COMP_R", 0>>

\* ["QB1", ..., "QB<number_qubits>"]
ConvertAllQubitNames(number_qubits) == [i \in 1..number_qubits |-> <<"QB", i>>]

ALLOWED_OPERATIONS ==
    {"PragmaBoostNoise", "PragmaStopParallelBlock", "PragmaGlobalPhase", "InputSymbolic",
     "InputBit", "PragmaRepeatedMeasurement", "PragmaStartDecompositionBlock",
     "PragmaStopDecompositionBlock"}

\* call_operation: Ok(Some(instruction)), Ok(None) or Err(kind); hqslang is the
\* operation an OperationNotInBackend names, "" for an error without that field.
OpOk(instr) == [err |-> "", instr |-> instr]
OpErr(kind, hqslang) == [err |-> kind, instr |-> None, hqslang |-> hqslang]

\* call_operation with every unmapped operation taken as allow-listed
call_operation_AllAllowed(operation) ==
    CASE operation.k = "RotateXY" ->
            IF operation.sym
            THEN OpErr("CalculatorError", "")
            ELSE OpOk(Some(IqmInstruction("prx",
                        <<ConvertQubitNameQoqoToIqm(operation.q)>>, "")))
      [] operation.k = "ControlledPauliZ" ->
            OpOk(Some(IqmInstruction("cz",
                        <<ConvertQubitNameQoqoToIqm(operation.q),
                          ConvertQubitNameQoqoToIqm(operation.t)>>, "")))
      [] operation.k = "CZQubitResonator" ->
            OpOk(Some(IqmInstruction("cz",
                        <<ConvertQubitNameQoqoToIqm(operation.q),
                          ConvertResonatorNameQoqoToIqm(operation.t)>>, "")))
      [] operation.k \in {"SingleExcitationLoad", "SingleExcitationStore"} ->
            OpOk(Some(IqmInstruction("move",
                        <<ConvertQubitNameQoqoToIqm(operation.q),
                          ConvertResonatorNameQoqoToIqm(operation.t)>>, "")))
      [] OTHER -> OpOk(None)

call_operation(operation) ==
    CASE operation.k = "RotateXY" ->
            IF operation.sym
            THEN OpErr("CalculatorError", "")
            ELSE OpOk(Some(IqmInstruction("prx",
                        <<ConvertQubitNameQoqoToIqm(operation.q)>>, "")))
      [] operation.k = "ControlledPauliZ" ->
            OpOk(Some(IqmInstruction("cz",
                        <<ConvertQubitNameQoqoToIqm(operation.q),
                          ConvertQubitNameQoqoToIqm(operation.t)>>, "")))
      [] operation.k = "CZQubitResonator" ->
            OpOk(Some(IqmInstruction("cz",
                        <<ConvertQubitNameQoqoToIqm(operation.q),
                          ConvertResonatorNameQoqoToIqm(operation.t)>>, "")))
      [] operation.k \in {"SingleExcitationLoad", "SingleExcitationStore"} ->
            OpOk(Some(IqmInstruction("move",
                        <<ConvertQubitNameQoqoToIqm(operation.q),
                          ConvertResonatorNameQoqoToIqm(operation.t)>>, "")))
      [] OTHER ->
            IF operation.k \in ALLOWED_OPERATIONS
            THEN OpOk(None)
            ELSE OpErr("OperationNotInBackend", operation.k)

\* MeasuredQubitsMap: register name -> (indices, length); def is whether the map
\* holds the key.
NoEntry == [def |-> FALSE, idx |-> <<>>, len |-> 0]
Entry(indices, length) == [def |-> TRUE, idx |-> indices, len |-> length]
EmptyMap == [r \in RegNames |-> NoEntry]

\* The locals of call_circuit; err is "" until a return Err(..).
CallLocals ==
    [circuit_vec |-> <<>>, number_measurements |-> 1, measured_qubits |-> <<>>,
     measured_qubits_map |-> EmptyMap, err |-> ""]

Fail(s, kind) == [s EXCEPT !.err = kind]

Contains(seq, x) == \E j \in 1..Len(seq) : seq[j] = x

\* CallDefinitionBit that gives every register an entry, output or not
CallDefinitionBit_AnyRegister(s, o) ==
    [s EXCEPT !.measured_qubits_map[o.r] = Entry(<<>>, o.n)]

\* Operation::DefinitionBit
CallDefinitionBit(s, o) ==
    IF o.out
    THEN [s EXCEPT !.measured_qubits_map[o.r] = Entry(<<>>, o.n)]
    ELSE s

\* position of the first `measure` instruction whose key is readout, 0 if none
FirstMeasure(circuit_vec, readout) ==
    LET hits == {j \in 1..Len(circuit_vec) :
                    circuit_vec[j].name = "measure" /\ circuit_vec[j].key = readout}
    IN IF hits = {} THEN 0 ELSE CHOOSE j \in hits : \A h \in hits : j <= h

\* CallMeasureQubit without the search for an earlier `measure` of the register:
\* every MeasureQubit emits an instruction of its own
CallMeasureQubit_NoCoalescing(s, o) ==
    IF ~s.measured_qubits_map[o.r].def
    THEN Fail(s, "InvalidCircuit")
    ELSE [s EXCEPT !.measured_qubits = Append(@, o.q),
                   !.measured_qubits_map[o.r].idx = Append(@, o.i),
                   !.circuit_vec = Append(@, IqmInstruction("measure",
                                        <<ConvertQubitNameQoqoToIqm(o.q)>>, o.r))]

\* CallMeasureQubit that adds the qubit to the register's `measure` instruction
\* without looking whether it is already there
CallMeasureQubit_RepeatsAllowed(s, o) ==
    LET readout == o.r
        pushed == [s EXCEPT !.measured_qubits = Append(@, o.q)]
        iqm_qubit == ConvertQubitNameQoqoToIqm(o.q)
        found == FirstMeasure(s.circuit_vec, readout)
    IN IF ~s.measured_qubits_map[readout].def
       THEN Fail(pushed, "InvalidCircuit")
       ELSE LET mapped == [pushed EXCEPT !.measured_qubits_map[readout].idx = Append(@, o.i)]
            IN IF found # 0
               THEN [mapped EXCEPT !.circuit_vec[found].qubits = Append(@, iqm_qubit)]
               ELSE [mapped EXCEPT !.circuit_vec =
                        Append(@, IqmInstruction("measure", <<iqm_qubit>>, readout))]

\* Operation::MeasureQubit
CallMeasureQubit(s, o) ==
    LET readout == o.r
        pushed == [s EXCEPT !.measured_qubits = Append(@, o.q)]
        iqm_qubit == ConvertQubitNameQoqoToIqm(o.q)
        found == FirstMeasure(s.circuit_vec, readout)
    IN IF ~s.measured_qubits_map[readout].def
       THEN Fail(pushed, "InvalidCircuit")
       ELSE LET mapped == [pushed EXCEPT !.measured_qubits_map[readout].idx = Append(@, o.i)]
            IN IF found # 0
               THEN IF ~Contains(s.circuit_vec[found].qubits, iqm_qubit)
                    THEN [mapped EXCEPT !.circuit_vec[found].qubits = Append(@, iqm_qubit)]
                    ELSE Fail(mapped, "InvalidCircuit")
               ELSE [mapped EXCEPT !.circuit_vec =
                        Append(@, IqmInstruction("measure", <<iqm_qubit>>, readout))]

IsNotMeasure(instr) == instr.name # "measure"

\* Operation::PragmaSetNumberOfMeasurements
CallPragmaSetNumberOfMeasurements(s, o) ==
    LET readout == o.r
        reg == s.measured_qubits_map[readout]
        set == [s EXCEPT !.number_measurements = o.n]
    IN IF s.number_measurements > 1 /\ s.number_measurements # o.n
       THEN Fail(s, "InvalidCircuit")
       ELSE IF ~reg.def
       THEN Fail(set, "InvalidCircuit")
       ELSE IF Len(s.measured_qubits) > reg.len
       THEN Fail(set, "RegisterTooSmall")
       ELSE [set EXCEPT
                !.circuit_vec =
                    Append(SelectSeq(s.circuit_vec, IsNotMeasure),
                           IqmInstruction("measure",
                               [j \in 1..Len(s.measured_qubits) |->
                                    ConvertQubitNameQoqoToIqm(s.measured_qubits[j])],
                               readout)),
                !.measured_qubits_map =
                    [EmptyMap EXCEPT ![readout] = Entry(s.measured_qubits, reg.len)]]

\* the keys of a qubit_mapping in ascending order (map.keys().sorted())
RECURSIVE SortedKeys(_)
SortedKeys(keys) ==
    IF keys = {} THEN <<>>
    ELSE LET m == CHOOSE x \in keys : \A y \in keys : x <= y
         IN <<m>> \o SortedKeys(keys \ {m})

\* CallPragmaRepeatedMeasurement that does not look whether the register was declared
CallPragmaRepeatedMeasurement_AnyRegister(s, o, device_number_qubits) ==
    LET readout == o.r
        reg == s.measured_qubits_map[readout]
        set == [s EXCEPT !.number_measurements = o.n]
        measure_all == IqmInstruction("measure",
                           ConvertAllQubitNames(device_number_qubits), readout)
    IN IF s.number_measurements > 1
       THEN Fail(s, "InvalidCircuit")
       ELSE IF s.measured_qubits # <<>>
       THEN Fail(s, "InvalidCircuit")
       ELSE [set EXCEPT
                !.measured_qubits_map[readout] =
                    Entry([j \in 1..reg.len |-> j - 1], reg.len),
                !.circuit_vec = Append(@, measure_all)]

\* Operation::PragmaRepeatedMeasurement
CallPragmaRepeatedMeasurement(s, o, device_number_qubits) ==
    LET readout == o.r
        reg == s.measured_qubits_map[readout]
        set == [s EXCEPT !.number_measurements = o.n]
        measure_all == IqmInstruction("measure",
                           ConvertAllQubitNames(device_number_qubits), readout)
    IN IF s.number_measurements > 1
       THEN Fail(s, "InvalidCircuit")
       ELSE IF s.measured_qubits # <<>>
       THEN Fail(s, "InvalidCircuit")
       ELSE IF ~reg.def
       THEN Fail(set, "InvalidCircuit")
       ELSE IF o.map = None
       THEN [set EXCEPT
                !.measured_qubits_map[readout] =
                    Entry([j \in 1..reg.len |-> j - 1], reg.len),
                !.circuit_vec = Append(@, measure_all)]
       ELSE LET map == o.map[1]
                keys == SortedKeys(DOMAIN map)
            IN [set EXCEPT
                !.measured_qubits_map[readout].idx =
                    @ \o [j \in 1..Len(keys) |-> map[keys[j]]],
                !.circuit_vec = Append(@, measure_all)]

\* the instructions of one pass over a loop body, or the first error
RECURSIVE CallBody(_, _)
CallBody(acc, body) ==
    IF acc.err # "" \/ body = <<>> THEN acc
    ELSE LET r == call_operation(Head(body))
         IN IF r.err # "" THEN [acc EXCEPT !.err = r.err]
            ELSE CallBody([acc EXCEPT !.instrs =
                              IF r.instr = None THEN @ ELSE Append(@, r.instr[1])],
                          Tail(body))

RECURSIVE CallRepeat(_, _, _)
CallRepeat(acc, reps, body) ==
    IF acc.err # "" \/ reps <= 0 THEN acc
    ELSE CallRepeat(CallBody(acc, body), reps - 1, body)

\* CallPragmaLoop that skips a loop with a symbolic repetition count
CallPragmaLoop_SymbolicSkipped(s, o) ==
    IF o.sym
    THEN s
    ELSE LET r == CallRepeat([instrs |-> s.circuit_vec, err |-> ""], o.n, o.body)
         IN IF r.err # "" THEN Fail(s, r.err)
            ELSE [s EXCEPT !.circuit_vec = r.instrs]

\* CallPragmaLoop that inlines the body once, whatever the repetition count
CallPragmaLoop_Once(s, o) ==
    IF o.sym
    THEN Fail(s, "InvalidCircuit")
    ELSE LET r == CallBody([instrs |-> s.circuit_vec, err |-> ""], o.body)
         IN IF r.err # "" THEN Fail(s, r.err)
            ELSE [s EXCEPT !.circuit_vec = r.instrs]

\* Operation::PragmaLoop
CallPragmaLoop(s, o) ==
    IF o.sym
    THEN Fail(s, "InvalidCircuit")
    ELSE LET r == CallRepeat([instrs |-> s.circuit_vec, err |-> ""], o.n, o.body)
         IN IF r.err # "" THEN Fail(s, r.err)
            ELSE [s EXCEPT !.circuit_vec = r.instrs]

\* the remaining operations: call_operation(op)?
CallOther(s, o) ==
    LET r == call_operation(o)
    IN IF r.err # "" THEN Fail(s, r.err)
       ELSE IF r.instr = None THEN s
       ELSE [s EXCEPT !.circuit_vec = Append(@, r.instr[1])]

MatchedKinds ==
    {"DefinitionBit", "MeasureQubit", "PragmaSetNumberOfMeasurements",
     "PragmaRepeatedMeasurement", "PragmaLoop"}

\* one iteration of `for op in circuit { match op {..} }`
CallStep(s, o, device_number_qubits) ==
    CASE o.k = "DefinitionBit" -> CallDefinitionBit(s, o)
      [] o.k = "MeasureQubit" -> CallMeasureQubit(s, o)
      [] o.k = "PragmaSetNumberOfMeasurements" -> CallPragmaSetNumberOfMeasurements(s, o)
      [] o.k = "PragmaRepeatedMeasurement" ->
            CallPragmaRepeatedMeasurement(s, o, device_number_qubits)
      [] o.k = "PragmaLoop" -> CallPragmaLoop(s, o)
      [] OTHER -> CallOther(s, o)

\* a return that leaves the circuit's own count in place
CallReturn_NoOverride(s, number_measurements_internal) == s

\* after the loop: the backend's override wins
CallReturn(s, number_measurements_internal) ==
    IF number_measurements_internal # None
    THEN [s EXCEPT !.number_measurements = number_measurements_internal[1]]
    ELSE s

\* call_circuit on a whole operation stream: the locals at the return, err = ""
\* for Ok((IqmCircuit, number_measurements))
RECURSIVE CallLoop(_, _, _)
CallLoop(s, ops, device_number_qubits) ==
    IF s.err # "" \/ ops = <<>> THEN s
    ELSE CallLoop(CallStep(s, Head(ops), device_number_qubits), Tail(ops),
                  device_number_qubits)

call_circuit(circuit, device_number_qubits, number_measurements_internal) ==
    LET s == CallLoop(CallLocals, circuit, device_number_qubits)
    IN IF s.err # "" THEN s ELSE CallReturn(s, number_measurements_internal)

\* ------------------------------------------------------------------ inputs of call_circuit
DefinitionBitOps ==
    {DefinitionBit(r, n, out) : r \in RegNames, n \in RegLens, out \in BOOLEAN}
MeasureQubitOps ==
    {MeasureQubit(q, r, i) : q \in Qubits, r \in RegNames, i \in 0..(MaxRegLen - 1)}
SetNumberOps ==
    {PragmaSetNumberOfMeasurements(n, r) : n \in ShotCounts, r \in RegNames}
QubitMappings ==
    {None, Some([q \in Qubits |-> MaxQubit - q]), Some([q \in {0} |-> 0])}
RepeatedOps ==
    {PragmaRepeatedMeasurement(r, n, m) : r \in RegNames, n \in ShotCounts, m \in QubitMappings}
LoopBodies ==
    {<<RotateXY(0, FALSE), Plain("PragmaGlobalPhase"), ControlledPauliZ(0, 1)>>,
     <<Plain("Hadamard")>>,
     <<MeasureQubit(0, "ro", 0)>>}
LoopOps ==
    {PragmaLoop(n, sym, body) : n \in {0, 2}, sym \in BOOLEAN, body \in LoopBodies}
GateOps ==
    {RotateXY(q, sym) : q \in Qubits, sym \in BOOLEAN}
    \cup {ControlledPauliZ(0, 1), CZQubitResonator(0, 0), SingleExcitationLoad(0, 0),
          SingleExcitationStore(0, 0), Plain("PragmaGlobalPhase"), Plain("Hadamard")}

\* ------------------------------------------------------------------ call_circuit, step by step
\* call holds the arguments (ops: the operations the iterator has yielded so far),
\* the locals and pc: "loop" inside the for loop, "returned" after Ok or Err.
CallInit(device_number_qubits, number_measurements_internal) ==
    [ops |-> <<>>, device_number_qubits |-> device_number_qubits,
     number_measurements_internal |-> number_measurements_internal,
     circuit_vec |-> CallLocals.circuit_vec,
     number_measurements |-> CallLocals.number_measurements,
     measured_qubits |-> CallLocals.measured_qubits,
     measured_qubits_map |-> CallLocals.measured_qubits_map,
     err |-> "", pc |-> "loop"]

Consume(s, o) ==
    [s EXCEPT !.ops = Append(@, o), !.pc = IF s.err # "" THEN "returned" ELSE "loop"]

CanYield == call.pc = "loop" /\ Len(call.ops) < MaxOps

\* a function that is not running
LsIdle == [ops |-> <<>>, pc |-> "idle"]
CallIdle == [ops |-> <<>>, pc |-> "idle"]
RrIdle == [pc |-> "idle"]
PollIdle == [pc |-> "idle"]
SubIdle == [pc |-> "idle"]

TranslateInit ==
    /\ call \in {CallInit(MaxQubit + 1, nmi) : nmi \in {None, Some(MaxShots + 1)}}
    /\ ls = LsIdle
    /\ rr = RrIdle /\ poll = PollIdle /\ sub = SubIdle

TranslateDefinitionBit ==
    /\ CanYield
    /\ \E o \in DefinitionBitOps : call' = Consume(CallDefinitionBit(call, o), o)
    /\ UNCHANGED <<ls, rr, poll, sub>>

TranslateMeasureQubit ==
    /\ CanYield
    /\ \E o \in MeasureQubitOps : call' = Consume(CallMeasureQubit(call, o), o)
    /\ UNCHANGED <<ls, rr, poll, sub>>

TranslatePragmaSetNumberOfMeasurements ==
    /\ CanYield
    /\ \E o \in SetNumberOps : call' = Consume(CallPragmaSetNumberOfMeasurements(call, o), o)
    /\ UNCHANGED <<ls, rr, poll, sub>>

TranslatePragmaRepeatedMeasurement ==
    /\ CanYield
    /\ \E o \in RepeatedOps :
          call' = Consume(CallPragmaRepeatedMeasurement(call, o, call.device_number_qubits), o)
    /\ UNCHANGED <<ls, rr, poll, sub>>

TranslatePragmaLoop ==
    /\ CanYield
    /\ \E o \in LoopOps : call' = Consume(CallPragmaLoop(call, o), o)
    /\ UNCHANGED <<ls, rr, poll, sub>>

TranslateOther ==
    /\ CanYield
    /\ \E o \in GateOps : call' = Consume(CallOther(call, o), o)
    /\ UNCHANGED <<ls, rr, poll, sub>>

\* the iterator is exhausted
TranslateReturn ==
    /\ call.pc = "loop"
    /\ call' = [CallReturn(call, call.number_measurements_internal) EXCEPT !.pc = "returned"]
    /\ UNCHANGED <<ls, rr, poll, sub>>

TranslateNext ==
    \/ TranslateDefinitionBit
    \/ TranslateMeasureQubit
    \/ TranslatePragmaSetNumberOfMeasurements
    \/ TranslatePragmaRepeatedMeasurement
    \/ TranslatePragmaLoop
    \/ TranslateOther
    \/ TranslateReturn

SpecTranslate == TranslateInit /\ [][TranslateNext]_vars

\* ------------------------------------------------------------------ C1
IsMeasure(instr) == instr.name = "measure"
IsMeasureQubitOp(o) == o.k = "MeasureQubit"

\* the MeasureQubit operations of a stream, in the order they appear
MeasureQubitsOf(ops) == SelectSeq(ops, IsMeasureQubitOp)

\* the stream's only measurements are MeasureQubit operations, at least one, on
\* pairwise distinct qubits, all into one register that an output DefinitionBit declares
OnlySingleMeasurementsIntoOneRegister(ops) ==
    LET ms == MeasureQubitsOf(ops)
    IN /\ ms # <<>>
       /\ \A j \in 1..Len(ops) :
             /\ ops[j].k \notin {"PragmaSetNumberOfMeasurements", "PragmaRepeatedMeasurement"}
             /\ \A b \in 1..Len(ops[j].body) :
                   ops[j].body[b].k \notin
                       {"MeasureQubit", "PragmaSetNumberOfMeasurements",
                        "PragmaRepeatedMeasurement"}
       /\ \A a, b \in 1..Len(ms) : a # b => ms[a].q # ms[b].q
       /\ \A a \in 1..Len(ms) : ms[a].r = ms[1].r
       /\ \E j \in 1..Len(ops) :
             ops[j].k = "DefinitionBit" /\ ops[j].out /\ ops[j].r = ms[1].r

\* C1: when call_circuit returns Ok for a stream whose only measurements are
\* MeasureQubit operations on pairwise distinct qubits into one declared output
\* register, the emitted instructions hold exactly one `measure`, keyed by the
\* register name, whose qubits are the measured qubits as QB<q+1> labels in the
\* order the MeasureQubit operations appear.
C1_OneCoalescedMeasure ==
    (call.pc = "returned" /\ call.err = "" /\ OnlySingleMeasurementsIntoOneRegister(call.ops))
    => LET ms == MeasureQubitsOf(call.ops)
       IN SelectSeq(call.circuit_vec, IsMeasure) =
              << [name |-> "measure",
                  qubits |-> [j \in 1..Len(ms) |-> <<"QB", ms[j].q + 1>>],
                  key |-> ms[1].r] >>

\* two MeasureQubit operations were coalesced and the translation returned Ok
C1_Witness ==
    /\ call.pc = "returned" /\ call.err = ""
    /\ OnlySingleMeasurementsIntoOneRegister(call.ops)
    /\ Len(MeasureQubitsOf(call.ops)) >= 2

\* ------------------------------------------------------------------ deneb_device.rs
\* SingleQubitOperation::try_from(op) is Ok: the single-qubit gates, MeasureQubit
\* (backend.rs tests the allow-list, which names it, inside this branch) and the
\* qubit-resonator operations (deneb_device.rs: "at the same time single-qubit
\* gates and single-mode gates").
IsSingleQubitOperation(o) ==
    o.k \in {"RotateXY", "Hadamard", "MeasureQubit", "CZQubitResonator",
             "SingleExcitationLoad", "SingleExcitationStore"}

\* The locals of validate_circuit_load_store: enum State, stored_qubit, qubit_rotated.
LoadStoreLocals ==
    [state |-> "Zero", stored_qubit |-> None, qubit_rotated |-> FALSE, err |-> ""]

\* LoadStoreLoad that accepts a Load in every state
LoadStoreLoad_NoDoubleLoadCheck(s, o) ==
    IF s.state = "FoundStore" /\ s.qubit_rotated /\ s.stored_qubit # None
       /\ o.q = s.stored_qubit[1]
    THEN Fail(s, "InvalidCircuit")
    ELSE [s EXCEPT !.state = "FoundLoad"]

\* LoadStoreLoad that rejects a Load no Store has preceded
LoadStoreLoad_NeedsStore(s, o) ==
    CASE s.state = "FoundStore" ->
            IF s.qubit_rotated /\ s.stored_qubit # None /\ o.q = s.stored_qubit[1]
            THEN Fail(s, "InvalidCircuit")
            ELSE [s EXCEPT !.state = "FoundLoad"]
      [] OTHER -> Fail(s, "InvalidCircuit")

\* Operation::SingleExcitationLoad
LoadStoreLoad(s, o) ==
    CASE s.state = "FoundStore" ->
            IF s.qubit_rotated /\ s.stored_qubit # None /\ o.q = s.stored_qubit[1]
            THEN Fail(s, "InvalidCircuit")
            ELSE [s EXCEPT !.state = "FoundLoad"]
      [] s.state = "FoundLoad" -> Fail(s, "InvalidCircuit")
      [] OTHER -> [s EXCEPT !.state = "FoundLoad"]

\* Operation::SingleExcitationStore
LoadStoreStore(s, o) ==
    IF s.state = "FoundStore"
    THEN Fail(s, "InvalidCircuit")
    ELSE [s EXCEPT !.stored_qubit = Some(o.q), !.state = "FoundStore"]

\* LoadStoreOther that never records a rotation
LoadStoreOther_NoFlag(s, o) == s

\* the default arm
LoadStoreOther(s, o) ==
    IF s.stored_qubit # None /\ IsSingleQubitOperation(o) /\ s.stored_qubit[1] = o.q
    THEN [s EXCEPT !.qubit_rotated = TRUE]
    ELSE s

LoadStoreStep(s, o) ==
    CASE o.k = "SingleExcitationLoad" -> LoadStoreLoad(s, o)
      [] o.k = "SingleExcitationStore" -> LoadStoreStore(s, o)
      [] OTHER -> LoadStoreOther(s, o)

RECURSIVE LoadStoreLoop(_, _)
LoadStoreLoop(s, ops) ==
    IF s.err # "" \/ ops = <<>> THEN s
    ELSE LoadStoreLoop(LoadStoreStep(s, Head(ops)), Tail(ops))

\* Ok(()) is err = ""
validate_circuit_load_store(circuit) == LoadStoreLoop(LoadStoreLocals, circuit).err

\* ------------------------------------------------------------------ the load/store scan, step by step
\* Longest circuit the load/store scan is run on.
MaxScan == 5

LoadOps == {SingleExcitationLoad(q, 0) : q \in Qubits}
StoreOps == {SingleExcitationStore(q, 0) : q \in Qubits}
ScanOtherOps ==
    {RotateXY(q, FALSE) : q \in Qubits}
    \cup {CZQubitResonator(0, 0), DefinitionBit("ro", 1, TRUE)}

LoadStoreInit ==
    /\ ls = [ops |-> <<>>, state |-> LoadStoreLocals.state,
             stored_qubit |-> LoadStoreLocals.stored_qubit,
             qubit_rotated |-> LoadStoreLocals.qubit_rotated, err |-> "", pc |-> "loop"]
    /\ call = CallIdle
    /\ rr = RrIdle /\ poll = PollIdle /\ sub = SubIdle

CanScan == ls.pc = "loop" /\ Len(ls.ops) < MaxScan

ScanLoad ==
    /\ CanScan
    /\ \E o \in LoadOps : ls' = Consume(LoadStoreLoad(ls, o), o)
    /\ UNCHANGED <<call, rr, poll, sub>>

ScanStore ==
    /\ CanScan
    /\ \E o \in StoreOps : ls' = Consume(LoadStoreStore(ls, o), o)
    /\ UNCHANGED <<call, rr, poll, sub>>

ScanOther ==
    /\ CanScan
    /\ \E o \in ScanOtherOps : ls' = Consume(LoadStoreOther(ls, o), o)
    /\ UNCHANGED <<call, rr, poll, sub>>

\* the circuit is exhausted: Ok(())
ScanReturn ==
    /\ ls.pc = "loop"
    /\ ls' = [ls EXCEPT !.pc = "returned"]
    /\ UNCHANGED <<call, rr, poll, sub>>

LoadStoreNext == ScanLoad \/ ScanStore \/ ScanOther \/ ScanReturn

SpecLoadStore == LoadStoreInit /\ [][LoadStoreNext]_vars

\* ------------------------------------------------------------------ C2, C3, C4
IsStore(o) == o.k = "SingleExcitationStore"
IsLoad(o) == o.k = "SingleExcitationLoad"

\* two operations of kind a with no operation of kind b between them
TwoWithout(ops, a, b) ==
    \E i, j \in 1..Len(ops) :
        /\ i < j /\ ops[i].k = a /\ ops[j].k = a
        /\ \A m \in (i + 1)..(j - 1) : ops[m].k # b

\* C2: the scan rejects (InvalidCircuit) every circuit with two
\* SingleExcitationStore and no SingleExcitationLoad between them, and every
\* circuit with two SingleExcitationLoad and no SingleExcitationStore between
\* them, whatever else is interleaved.
C2_DoubleStoreOrLoadRejected ==
    (\/ TwoWithout(ls.ops, "SingleExcitationStore", "SingleExcitationLoad")
     \/ TwoWithout(ls.ops, "SingleExcitationLoad", "SingleExcitationStore"))
    => ls.err = "InvalidCircuit"

\* a second Load, with other operations between, has been scanned and rejected
C2_Witness ==
    /\ ls.pc = "returned"
    /\ TwoWithout(ls.ops, "SingleExcitationLoad", "SingleExcitationStore")
    /\ ~TwoWithout(ls.ops, "SingleExcitationStore", "SingleExcitationLoad")
    /\ \E j \in 1..Len(ls.ops) : ls.ops[j].k = "RotateXY"
    /\ ls.err = "InvalidCircuit"

\* Store(q), later a rotation on q, later Load(q), no other Store or Load between
\* the Store and the Load
StoreRotateLoad(ops) ==
    \E i, j, m \in 1..Len(ops) :
        /\ i < j /\ j < m
        /\ IsStore(ops[i]) /\ ops[j].k = "RotateXY" /\ IsLoad(ops[m])
        /\ ops[j].q = ops[i].q /\ ops[m].q = ops[i].q
        /\ \A x \in (i + 1)..(m - 1) : ~IsStore(ops[x]) /\ ~IsLoad(ops[x])

\* C3: the scan rejects every circuit that holds Store(q), later a single-qubit
\* rotation on q, later Load(q), with no other Store or Load between the two.
C3_RotationBeforeLoadRejected ==
    StoreRotateLoad(ls.ops) => ls.err = "InvalidCircuit"

\* the Load of a rotated stored qubit was rejected, after an earlier legal pair
C3_Witness ==
    /\ ls.pc = "returned" /\ ls.err = "InvalidCircuit"
    /\ StoreRotateLoad(ls.ops)
    /\ ~TwoWithout(ls.ops, "SingleExcitationStore", "SingleExcitationLoad")
    /\ ~TwoWithout(ls.ops, "SingleExcitationLoad", "SingleExcitationStore")

IsStoreOrLoad(o) == IsStore(o) \/ IsLoad(o)

\* Store and Load strictly alternate, starting with a Store
StrictlyAlternate(ops) ==
    LET sl == SelectSeq(ops, IsStoreOrLoad)
    IN \A j \in 1..Len(sl) : IF j % 2 = 1 THEN IsStore(sl[j]) ELSE IsLoad(sl[j])

\* no single-qubit operation acts on the stored qubit between a Store(q) and the
\* next Load
NothingOnStoredQubit(ops) ==
    \A i, j \in 1..Len(ops) :
        (/\ i < j /\ IsStore(ops[i]) /\ IsSingleQubitOperation(ops[j])
         /\ ~IsStoreOrLoad(ops[j]) /\ ops[j].q = ops[i].q)
        => \E m \in (i + 1)..(j - 1) : IsLoad(ops[m])

\* C4 as claimed: the scan accepts every circuit in which Store and Load strictly
\* alternate, starting with a Store, and nothing rotates the stored qubit between
\* a Store(q) and the next Load; rotations on q after the matching Load(q) are
\* legal even when further Store/Load pairs follow.
C4_AlternatingAccepted ==
    (StrictlyAlternate(ls.ops) /\ NothingOnStoredQubit(ls.ops)) => ls.err = ""

\* ------------------------------------------------------------------ backend.rs: results_to_registers
\* An IqmRunResult as results_to_registers reads it: measurements is
\* Option<BatchResult>, a CircuitResult maps each register name to None (no such
\* key) or Some(shots); metadata is metadata.request.circuits, each entry the
\* circuit's metadata: Option<MeasuredQubitsMap>.
IqmRunResult(measurements, metadata) == [measurements |-> measurements, metadata |-> metadata]

RECURSIVE MergeMetadata(_, _)
MergeMetadata(acc, circuits) ==
    IF acc.err # "" \/ circuits = <<>> THEN acc
    ELSE LET metadata == Head(circuits)
         IN IF metadata = None
            THEN [acc EXCEPT !.err = "MetadataError"]
            ELSE IF \E r \in RegNames : metadata[1][r].def /\ acc.map[r].def
            THEN [acc EXCEPT !.err = "MetadataError"]
            ELSE MergeMetadata(
                    [acc EXCEPT !.map =
                        [r \in RegNames |->
                            IF metadata[1][r].def THEN metadata[1][r] ELSE acc.map[r]]],
                    Tail(circuits))

get_measured_qubits_map(results) ==
    MergeMetadata([map |-> EmptyMap, err |-> ""], results.metadata)

\* output_reg[shot_index][*qubit] ^= shot_result[j] != 0
XorWrite(row, qubit, outcome) == [row EXCEPT ![qubit + 1] = (@ # (outcome # 0))]

RECURSIVE WriteShot(_, _, _, _)
WriteShot(row, measured_qubits, shot_result, j) ==
    IF j > Len(measured_qubits) THEN row
    ELSE WriteShot(XorWrite(row, measured_qubits[j], shot_result[j]),
                   measured_qubits, shot_result, j + 1)

\* an index past the end of a register row or of a shot: the slice index panics
IndexOutOfBounds(entry, reg_result) ==
    \E sh \in 1..Len(reg_result) : \E j \in 1..Len(entry.idx) :
        j > Len(reg_result[sh]) \/ entry.idx[j] >= entry.len

\* a loop body whose register has one row more than the payload has shots
ReassembleRegisterBody_ExtraRow(s, reg, reg_result) ==
    LET entry == s.measured_qubits_map[reg]
        number_measurements == Len(reg_result)
        initialized_reg == [sh \in 1..number_measurements |-> [b \in 1..entry.len |-> FALSE]]
    IN IF ~entry.def THEN Fail(s, "InvalidResults")
       ELSE IF s.bit_registers[reg] # None THEN Fail(s, "InvalidResults")
       ELSE IF IndexOutOfBounds(entry, reg_result) THEN Fail(s, "Panic")
       ELSE [s EXCEPT !.bit_registers[reg] =
                Some(Append([sh \in 1..number_measurements |->
                                WriteShot(initialized_reg[sh], entry.idx, reg_result[sh], 1)],
                            [b \in 1..entry.len |-> FALSE]))]

\* the body of `for (reg, reg_result) in result.iter()`
ReassembleRegisterBody(s, reg, reg_result) ==
    LET entry == s.measured_qubits_map[reg]
        number_measurements == Len(reg_result)
        initialized_reg == [sh \in 1..number_measurements |-> [b \in 1..entry.len |-> FALSE]]
    IN IF ~entry.def THEN Fail(s, "InvalidResults")
       ELSE IF s.bit_registers[reg] # None THEN Fail(s, "InvalidResults")
       ELSE IF IndexOutOfBounds(entry, reg_result) THEN Fail(s, "Panic")
       ELSE [s EXCEPT !.bit_registers[reg] =
                Some([sh \in 1..number_measurements |->
                        WriteShot(initialized_reg[sh], entry.idx, reg_result[sh], 1)])]

\* ------------------------------------------------------------------ inputs of results_to_registers
IndexLists == UNION {[1..n -> 0..MaxRegLen] : n \in 0..MaxRegLen}
MapEntries == {NoEntry} \cup {Entry(idx, len) : idx \in IndexLists, len \in RegLens}
RegResults ==
    {None} \cup {Some(shots) : shots \in UNION {[1..n -> [1..w -> {0, 1}]] :
                                              n \in ShotCounts, w \in 0..MaxRegLen}}
OnlyRo(e) == [r \in RegNames |-> IF r = "ro" THEN e ELSE NoEntry]
OnlyRb(e) == [r \in RegNames |-> IF r = "rb" THEN e ELSE NoEntry]
Result(ro, rb) == [r \in RegNames |-> IF r = "ro" THEN ro ELSE rb]

\* the job's results: register ro in general, the rest one of a few shapes
RunResults(e, p) ==
    {IqmRunResult(Some(<<Result(p, None)>>), <<Some(OnlyRo(e))>>),
     IqmRunResult(Some(<<Result(p, Some(<< <<1>> >>))>>), <<Some(OnlyRo(e))>>),
     IqmRunResult(None, <<Some(OnlyRo(e))>>),
     IqmRunResult(Some(<<Result(p, None)>>), <<Some(OnlyRo(e)), None>>),
     IqmRunResult(Some(<<Result(p, None)>>),
                  <<Some(OnlyRo(e)), Some(OnlyRb(Entry(<<0>>, 1)))>>),
     IqmRunResult(Some(<<Result(p, None), Result(None, Some(<< <<1>> >>))>>),
                  <<Some(OnlyRo(e)), Some(OnlyRb(Entry(<<0>>, 1)))>>),
     IqmRunResult(Some(<<Result(p, None)>>),
                  <<Some(OnlyRo(e)), Some(OnlyRo(Entry(<<0>>, 1)))>>),
     IqmRunResult(Some(<<Result(p, None), Result(Some(<< <<0>> >>), None)>>),
                  <<Some(OnlyRo(e))>>)}

\* ------------------------------------------------------------------ results_to_registers, step by step
ReassembleInit ==
    /\ \E e \in MapEntries, p \in RegResults : \E res \in RunResults(e, p) :
          rr = [results |-> res, id |-> "job", measured_qubits_map |-> EmptyMap,
                bit_registers |-> [r \in RegNames |-> None], result |-> 0, done |-> {},
                err |-> "", pc |-> "start"]
    /\ call = CallIdle /\ ls = LsIdle /\ poll = PollIdle /\ sub = SubIdle

\* get_measured_qubits_map(&results)? and results.measurements.ok_or(EmptyResult)?
ReassembleStart ==
    /\ rr.pc = "start"
    /\ LET m == get_measured_qubits_map(rr.results)
       IN rr' = IF m.err # ""
                THEN [rr EXCEPT !.err = m.err, !.pc = "returned"]
                ELSE IF rr.results.measurements = None
                THEN [rr EXCEPT !.err = "EmptyResult", !.pc = "returned"]
                ELSE [rr EXCEPT !.measured_qubits_map = m.map, !.pc = "results"]
    /\ UNCHANGED <<call, ls, poll, sub>>

meas_results == rr.results.measurements[1]

\* for result in meas_results.iter()
ReassembleNextResult ==
    /\ rr.pc = "results"
    /\ rr.result < Len(meas_results)
    /\ rr' = [rr EXCEPT !.result = @ + 1, !.done = {}, !.pc = "registers"]
    /\ UNCHANGED <<call, ls, poll, sub>>

\* for (reg, reg_result) in result.iter(): a HashMap yields its entries in any order
ReassembleRegister ==
    /\ rr.pc = "registers"
    /\ \E reg \in RegNames \ rr.done :
          /\ meas_results[rr.result][reg] # None
          /\ LET s == ReassembleRegisterBody(rr, reg, meas_results[rr.result][reg][1])
             IN rr' = [s EXCEPT !.done = @ \cup {reg},
                                !.pc = IF s.err # "" THEN "returned" ELSE "registers"]
    /\ UNCHANGED <<call, ls, poll, sub>>

\* the inner iterator is exhausted
ReassembleResultDone ==
    /\ rr.pc = "registers"
    /\ \A reg \in RegNames \ rr.done : meas_results[rr.result][reg] = None
    /\ rr' = [rr EXCEPT !.pc = "results"]
    /\ UNCHANGED <<call, ls, poll, sub>>

\* Ok((bit_registers, float_registers, complex_registers))
ReassembleReturn ==
    /\ rr.pc = "results"
    /\ rr.result = Len(meas_results)
    /\ rr' = [rr EXCEPT !.pc = "returned"]
    /\ UNCHANGED <<call, ls, poll, sub>>

ReassembleNext ==
    \/ ReassembleStart
    \/ ReassembleNextResult
    \/ ReassembleRegister
    \/ ReassembleResultDone
    \/ ReassembleReturn

SpecReassemble == ReassembleInit /\ [][ReassembleNext]_vars

\* ------------------------------------------------------------------ C6
\* the register's entry in the merged map and its shots in the payload
PayloadOf(reg) ==
    LET holders == {c \in 1..Len(meas_results) : meas_results[c][reg] # None}
    IN meas_results[CHOOSE c \in holders : TRUE][reg][1]

\* C6 as claimed: when results_to_registers returns Ok, every register of the
\* payload is a table whose bit [s][q] is true iff q occurs in the register's
\* index list at a position whose reported outcome in shot s is nonzero; every
\* other bit is false.
C6_BitsAreOutcomes ==
    (rr.pc = "returned" /\ rr.err = "")
    => \A reg \in RegNames :
          (\E c \in 1..Len(meas_results) : meas_results[c][reg] # None)
          => LET entry == rr.measured_qubits_map[reg]
                 shots == PayloadOf(reg)
                 table == rr.bit_registers[reg][1]
             IN \A sh \in 1..Len(shots) : \A q \in 0..(entry.len - 1) :
                   table[sh][q + 1] =
                       (\E j \in 1..Len(entry.idx) : entry.idx[j] = q /\ shots[sh][j] # 0)

\* ------------------------------------------------------------------ backend.rs: wait_for_results
TIMEOUT_SECS == 60
SECONDS_BETWEEN_CALLS == 4

\* seconds a GET request may take (whole seconds)
MaxLatency == 2
Latencies == 0..MaxLatency

PendingStatuses == {"pending compilation", "pending execution"}
TerminalStatuses == {"ready", "failed", "aborted"}

\* the part of an IqmRunResult that wait_for_results reads
StatusReply(status, message) == [status |-> status, message |-> message]

PollOk(iqm_result) == [kind |-> "Ok", value |-> iqm_result]
PollErr(kind, id, msg) == [kind |-> kind, id |-> id, msg |-> msg]
PollRunning == [kind |-> "running"]

\* let start_time = Instant::now()
PollInit ==
    /\ poll = [pc |-> "check", id |-> "job", elapsed |-> 0, requests |-> 0, sleeps |-> 0,
               replies |-> <<>>, result |-> PollRunning]
    /\ call = CallIdle /\ ls = LsIdle /\ rr = RrIdle /\ sub = SubIdle

\* while start_time.elapsed().as_secs_f64() < TIMEOUT_SECS, and the Timeout
\* error after the loop
PollCheck ==
    /\ poll.pc = "check"
    /\ poll' = IF poll.elapsed < TIMEOUT_SECS
               THEN [poll EXCEPT !.pc = "request"]
               ELSE [poll EXCEPT !.pc = "returned",
                                 !.result = PollErr("Timeout", None, Some(TIMEOUT_SECS))]
    /\ UNCHANGED <<call, ls, rr, sub>>

\* self.get_results(id.clone())? answered with iqm_result after d seconds
Received(iqm_result, d) ==
    [poll EXCEPT !.elapsed = @ + d, !.requests = @ + 1,
                 !.replies = Append(@, iqm_result)]

\* a job does not go back from pending execution to pending compilation
MayReply(status) ==
    status = "pending compilation"
    => \A i \in 1..Len(poll.replies) : poll.replies[i].status = "pending compilation"

\* a Ready arm that does not return
PollReady_KeepsPolling ==
    /\ poll.pc = "request"
    /\ \E d \in Latencies :
          poll' = [Received(StatusReply("ready", None), d) EXCEPT !.pc = "sleep"]
    /\ UNCHANGED <<call, ls, rr, sub>>

\* Status::Ready => return Ok(iqm_result)
PollReady ==
    /\ poll.pc = "request"
    /\ \E d \in Latencies :
          LET iqm_result == StatusReply("ready", None)
          IN poll' = [Received(iqm_result, d) EXCEPT !.pc = "returned",
                                                     !.result = PollOk(iqm_result)]
    /\ UNCHANGED <<call, ls, rr, sub>>

\* Status::Failed => message.expect(..), return Err(JobFailed { id, msg })
PollFailed ==
    /\ poll.pc = "request"
    /\ \E d \in Latencies, message \in {None, Some("msg")} :
          LET iqm_result == StatusReply("failed", message)
          IN poll' = [Received(iqm_result, d) EXCEPT
                         !.pc = "returned",
                         !.result = IF message = None
                                    THEN PollErr("Panic", None, None)
                                    ELSE PollErr("JobFailed", Some(poll.id), message)]
    /\ UNCHANGED <<call, ls, rr, sub>>

\* Status::Aborted => return Err(JobAborted { id })
PollAborted ==
    /\ poll.pc = "request"
    /\ \E d \in Latencies :
          poll' = [Received(StatusReply("aborted", None), d) EXCEPT
                      !.pc = "returned",
                      !.result = PollErr("JobAborted", Some(poll.id), None)]
    /\ UNCHANGED <<call, ls, rr, sub>>

\* _ => the loop goes on to thread::sleep
PollPending ==
    /\ poll.pc = "request"
    /\ \E d \in Latencies, status \in PendingStatuses :
          /\ MayReply(status)
          /\ poll' = [Received(StatusReply(status, None), d) EXCEPT !.pc = "sleep"]
    /\ UNCHANGED <<call, ls, rr, sub>>

\* get_results fails (client, GET or deserialisation): the ? returns the error
PollNetworkError ==
    /\ poll.pc = "request"
    /\ \E d \in Latencies :
          poll' = [poll EXCEPT !.elapsed = @ + d, !.requests = @ + 1,
                               !.pc = "returned",
                               !.result = PollErr("NetworkError", None, None)]
    /\ UNCHANGED <<call, ls, rr, sub>>

\* a sleep one second shorter than SECONDS_BETWEEN_CALLS
PollSleep_Shorter ==
    /\ poll.pc = "sleep"
    /\ poll' = [poll EXCEPT !.elapsed = @ + (SECONDS_BETWEEN_CALLS - 1), !.sleeps = @ + 1,
                            !.pc = "check"]
    /\ UNCHANGED <<call, ls, rr, sub>>

\* thread::sleep(Duration::from_secs_f64(SECONDS_BETWEEN_CALLS))
PollSleep ==
    /\ poll.pc = "sleep"
    /\ poll' = [poll EXCEPT !.elapsed = @ + SECONDS_BETWEEN_CALLS, !.sleeps = @ + 1,
                            !.pc = "check"]
    /\ UNCHANGED <<call, ls, rr, sub>>

PollNext ==
    \/ PollCheck
    \/ PollReady
    \/ PollFailed
    \/ PollAborted
    \/ PollPending
    \/ PollNetworkError
    \/ PollSleep

SpecPoll == PollInit /\ [][PollNext]_vars

\* the thread runs: a statement that can execute eventually does
SpecPollFair == PollInit /\ [][PollNext]_vars /\ WF_vars(PollNext)

\* ------------------------------------------------------------------ C7
IsTerminalReply(iqm_result) == iqm_result.status \in TerminalStatuses

OnlyPendingReplies ==
    \A i \in 1..Len(poll.replies) : poll.replies[i].status \in PendingStatuses

\* C8: wait_for_results always returns; while the job only ever answers with a
\* pending status it sleeps at most 15 times, returns the Timeout error (and
\* nothing else, short of a network error) once 60 seconds have elapsed, and
\* after the return no further request or sleep happens.
C8_AlwaysTerminates ==
    /\ <>(poll.pc = "returned")
    /\ [](poll.sleeps <= 15)
    /\ []((poll.pc = "returned" /\ OnlyPendingReplies /\ poll.requests = Len(poll.replies))
          => (poll.result.kind = "Timeout" /\ poll.elapsed >= TIMEOUT_SECS))
    /\ []((poll.pc = "check" /\ poll.elapsed >= TIMEOUT_SECS) => <>(poll.result.kind = "Timeout"))
    /\ [][poll.pc = "returned" => poll' = poll]_vars

\* the job stayed pending, requests took no time: 15 sleeps of 4 seconds, Timeout
C8_Witness ==
    /\ poll.pc = "returned"
    /\ poll.result.kind = "Timeout"
    /\ OnlyPendingReplies
    /\ poll.sleeps = 15
    /\ poll.elapsed = TIMEOUT_SECS

\* ------------------------------------------------------------------ devices
\* What the backend reads of a device: name(), number_qubits(), two_qubit_edges().
DenebDevice == [name |-> "Deneb", number_qubits |-> 6, edges |-> {}]
ResonatorFreeDevice ==
    [name |-> "ResonatorFree", number_qubits |-> 6, edges |-> {<<i, 5>> : i \in 0..4}]

Min(a, b) == IF a <= b THEN a ELSE b
Max(a, b) == IF a >= b THEN a ELSE b

\* Device::single_qubit_gate_time of the resonator-free device
single_qubit_gate_time(device, hqslang, qubit) ==
    IF hqslang = "RotateXY" /\ qubit < device.number_qubits THEN Some(1) ELSE None

\* Device::two_qubit_gate_time of the resonator-free device
two_qubit_gate_time(device, hqslang, control, target) ==
    IF hqslang = "ControlledPauliZ"
       /\ <<Min(control, target), Max(control, target)>> \in device.edges
    THEN Some(1) ELSE None

\* Device::multi_qubit_gate_time: no multi-qubit gate is native
multi_qubit_gate_time(device, hqslang) == None

IsTwoQubitOperation(o) == o.k \in {"ControlledPauliZ", "CNOT"}
IsMultiQubitOperation(o) == o.k \in {"MultiQubitMS"}

\* the first error of the per-operation checks of a circuit, "" if none
FirstError(errors) ==
    LET bad == {j \in 1..Len(errors) : errors[j] # ""}
    IN IF bad = {} THEN ""
       ELSE errors[CHOOSE j \in bad : \A h \in bad : j <= h]

\* ------------------------------------------------------------------ deneb_device.rs: validate_circuit
DenebConnectivityOf(o) ==
    CASE o.k = "RotateXY" ->
            IF o.q >= DenebDevice.number_qubits THEN "InvalidCircuit" ELSE ""
      [] o.k = "CZQubitResonator" ->
            IF o.q >= DenebDevice.number_qubits THEN "InvalidCircuit"
            ELSE IF o.t # 0 THEN "InvalidCircuit" ELSE ""
      [] o.k \in {"SingleExcitationLoad", "SingleExcitationStore"} ->
            IF o.t # 0 THEN "InvalidCircuit" ELSE ""
      [] OTHER ->
            IF o.k \notin {"PragmaSetNumberOfMeasurements", "PragmaRepeatedMeasurement",
                           "MeasureQubit", "DefinitionBit", "InputBit"}
            THEN "OperationNotInBackend" ELSE ""

deneb_validate_circuit_connectivity(circuit) ==
    FirstError([j \in 1..Len(circuit) |-> DenebConnectivityOf(circuit[j])])

deneb_validate_circuit(circuit) ==
    LET connectivity == deneb_validate_circuit_connectivity(circuit)
    IN IF connectivity # "" THEN connectivity ELSE validate_circuit_load_store(circuit)

\* ------------------------------------------------------------------ backend.rs: validate_circuit
\* an allow-list that also holds PragmaLoop
allowed_WithLoop ==
    {"PragmaSetNumberOfMeasurements", "PragmaRepeatedMeasurement", "MeasureQubit",
     "DefinitionBit", "InputBit", "PragmaGlobalPhase", "PragmaLoop"}

allowed ==
    {"PragmaSetNumberOfMeasurements", "PragmaRepeatedMeasurement", "MeasureQubit",
     "DefinitionBit", "InputBit", "PragmaGlobalPhase"}

ConnectivityOf(device, o) ==
    IF IsSingleQubitOperation(o)
    THEN IF o.k \notin allowed /\ single_qubit_gate_time(device, o.k, o.q) = None
         THEN "OperationNotInBackend" ELSE ""
    ELSE IF IsTwoQubitOperation(o)
    THEN IF two_qubit_gate_time(device, o.k, o.q, o.t) = None
         THEN "OperationNotInBackend" ELSE ""
    ELSE IF IsMultiQubitOperation(o)
    THEN IF multi_qubit_gate_time(device, o.k) = None
         THEN "OperationNotInBackend" ELSE ""
    ELSE IF o.k \notin allowed THEN "OperationNotInBackend" ELSE ""

validate_circuit_connectivity(device, circuit) ==
    FirstError([j \in 1..Len(circuit) |-> ConnectivityOf(device, circuit[j])])

\* InvolvedQubits::Set(s) of an operation; {} for InvolvedQubits::None and ::All
InvolvedQubitsSet(o) ==
    CASE o.k \in {"MeasureQubit", "RotateXY", "Hadamard", "CZQubitResonator",
                  "SingleExcitationLoad", "SingleExcitationStore"} -> {o.q}
      [] o.k \in {"ControlledPauliZ", "CNOT"} -> {o.q, o.t}
      [] OTHER -> {}

get_number_qubits(qc) ==
    LET number_qubits_vec == UNION {InvolvedQubitsSet(qc[j]) : j \in 1..Len(qc)}
    IN IF number_qubits_vec = {} THEN None
       ELSE Some((CHOOSE x \in number_qubits_vec : \A y \in number_qubits_vec : y <= x) + 1)

IsDefinitionBit(o) == o.k = "DefinitionBit"

\* the length of the last DefinitionBit of circuit.definitions(), 0 if none
ReadoutLength(circuit) ==
    LET defs == SelectSeq(circuit, IsDefinitionBit)
    IN IF defs = <<>> THEN 0 ELSE defs[Len(defs)].n

MeasuredLocals == [measured |-> FALSE, measured_qubits |-> <<>>, err |-> ""]

\* MeasuredStep that never compares with the qubits measured so far
MeasuredStep_NoDoubleCheck(s, o, device, circuit, number_qubits) ==
    CASE o.k = "MeasureQubit" ->
            [s EXCEPT !.measured = TRUE, !.measured_qubits = Append(@, o.q)]
      [] o.k = "PragmaRepeatedMeasurement" ->
            IF number_qubits > ReadoutLength(circuit)
            THEN [s EXCEPT !.measured = TRUE, !.err = "RegisterTooSmall"]
            ELSE [s EXCEPT !.measured = TRUE,
                           !.measured_qubits = [j \in 1..device.number_qubits |-> j - 1]]
      [] OTHER -> s

\* one iteration of the measurement loop of validate_circuit
MeasuredStep(s, o, device, circuit, number_qubits) ==
    CASE o.k = "MeasureQubit" ->
            IF Contains(s.measured_qubits, o.q)
            THEN [s EXCEPT !.measured = TRUE, !.err = "InvalidCircuit"]
            ELSE [s EXCEPT !.measured = TRUE, !.measured_qubits = Append(@, o.q)]
      [] o.k = "PragmaRepeatedMeasurement" ->
            IF s.measured_qubits # <<>>
            THEN [s EXCEPT !.measured = TRUE, !.err = "InvalidCircuit"]
            ELSE IF number_qubits > ReadoutLength(circuit)
            THEN [s EXCEPT !.measured = TRUE, !.err = "RegisterTooSmall"]
            ELSE [s EXCEPT !.measured = TRUE,
                           !.measured_qubits = [j \in 1..device.number_qubits |-> j - 1]]
      [] OTHER -> s

RECURSIVE MeasuredLoop(_, _, _, _, _)
MeasuredLoop(s, ops, device, circuit, number_qubits) ==
    IF s.err # "" \/ ops = <<>> THEN s
    ELSE MeasuredLoop(MeasuredStep(s, Head(ops), device, circuit, number_qubits),
                      Tail(ops), device, circuit, number_qubits)

\* validate_circuit that looks for qubits only after every other check
validate_circuit_EmptyCheckedLast(device, circuit) ==
    LET number_qubits == get_number_qubits(circuit)
        legal == IF device.name = "Deneb"
                 THEN deneb_validate_circuit(circuit)
                 ELSE IF validate_circuit_connectivity(device, circuit) # ""
                      THEN "InvalidCircuit" ELSE ""
        s == MeasuredLoop(MeasuredLocals, circuit, device, circuit,
                          IF number_qubits = None THEN 0 ELSE number_qubits[1])
    IN IF legal # "" THEN legal
       ELSE IF s.err # "" THEN s.err
       ELSE IF ~s.measured THEN "InvalidCircuit"
       ELSE IF number_qubits = None THEN "EmptyCircuit" ELSE ""

\* Backend::validate_circuit: "" for Ok(()), else the error's kind
validate_circuit(device, circuit) ==
    LET number_qubits == get_number_qubits(circuit)
        legal == IF device.name = "Deneb"
                 THEN deneb_validate_circuit(circuit)
                 ELSE IF validate_circuit_connectivity(device, circuit) # ""
                      THEN "InvalidCircuit" ELSE ""
    IN IF number_qubits = None THEN "EmptyCircuit"
       ELSE IF legal # "" THEN legal
       ELSE LET s == MeasuredLoop(MeasuredLocals, circuit, device, circuit, number_qubits[1])
            IN IF s.err # "" THEN s.err
               ELSE IF ~s.measured THEN "InvalidCircuit" ELSE ""

\* ------------------------------------------------------------------ backend.rs: validate_circuit_batch
\* the names of the output DefinitionBit registers of a circuit
OutputRegisters(circuit) ==
    {circuit[j].r : j \in {h \in 1..Len(circuit) : IsDefinitionBit(circuit[h]) /\ circuit[h].out}}

BatchLocals == [output_registers |-> {}, err |-> ""]

\* one iteration of `for circuit in circuit_batch.iter()`
BatchStep(s, device, circuit) ==
    LET valid == validate_circuit(device, circuit)
        found == OutputRegisters(circuit)
    IN IF valid # "" THEN Fail(s, valid)
       ELSE IF found = {}
       THEN Fail(s, "InvalidCircuit")
       ELSE [s EXCEPT !.output_registers = @ \cup found]

RECURSIVE BatchLoop(_, _, _)
BatchLoop(s, device, circuits) ==
    IF s.err # "" \/ circuits = <<>> THEN s
    ELSE BatchLoop(BatchStep(s, device, Head(circuits)), device, Tail(circuits))

\* Backend::validate_circuit_batch: "" for Ok(()), else the error's kind
validate_circuit_batch(device, circuit_batch) ==
    LET s == BatchLoop(BatchLocals, device, circuit_batch)
    IN IF s.err # "" THEN s.err
       ELSE IF Cardinality(s.output_registers) < Len(circuit_batch)
       THEN "InvalidCircuit" ELSE ""

\* ------------------------------------------------------------------ inputs of submit_circuit_batch
\* Longest batch submitted.
MaxBatch == 2

OutputBit(name) == DefinitionBit(name, MaxRegLen, TRUE)

\* the circuits a batch is drawn from: for each register a plain measurement,
\* one with a shot count, a measurement of all qubits; circuits with two output
\* registers, without output register, without measurement, without qubits,
\* with a register too small, measuring a qubit twice, outside the device's
\* gate set, circuits that pass validation but not translation, and a circuit
\* that measures into two registers and sets the shot count for each, a
\* circuit with a loop
BatchCircuits(n) ==
    UNION {
        {<<OutputBit(r), MeasureQubit(0, r, 0)>>,
         <<OutputBit(r), MeasureQubit(0, r, 0), PragmaSetNumberOfMeasurements(n, r)>>,
         <<OutputBit(r), RotateXY(0, FALSE), PragmaRepeatedMeasurement(r, n, None)>>}
        : r \in RegNames}
    \cup
        {<<OutputBit("ro"), OutputBit("rb"), MeasureQubit(0, "ro", 0)>>,
         <<DefinitionBit("ro", MaxRegLen, FALSE), MeasureQubit(0, "ro", 0)>>,
         <<OutputBit("ro"), RotateXY(0, FALSE)>>,
         <<OutputBit("ro"), PragmaSetNumberOfMeasurements(n, "ro")>>,
         <<DefinitionBit("ro", 1, TRUE), RotateXY(1, FALSE),
           PragmaRepeatedMeasurement("ro", n, None)>>,
         <<OutputBit("ro"), MeasureQubit(0, "ro", 0), MeasureQubit(0, "ro", 1)>>,
         <<OutputBit("ro"), ControlledPauliZ(0, 1), MeasureQubit(0, "ro", 0)>>,
         <<OutputBit("ro"), CZQubitResonator(0, 0), MeasureQubit(0, "ro", 0)>>,
         <<OutputBit("ro"), RotateXY(0, TRUE), MeasureQubit(0, "ro", 0)>>,
         <<OutputBit("ro"), MeasureQubit(0, "rb", 0)>>,
         <<OutputBit("ro"), PragmaLoop(2, FALSE, <<RotateXY(0, FALSE)>>),
           MeasureQubit(0, "ro", 0)>>,
         <<OutputBit("ro"), OutputBit("rb"), MeasureQubit(0, "ro", 0), MeasureQubit(1, "rb", 0),
           PragmaSetNumberOfMeasurements(n, "ro"), PragmaSetNumberOfMeasurements(n, "rb")>>}

Devices == {DenebDevice, ResonatorFreeDevice}

\* ------------------------------------------------------------------ backend.rs: submit_circuit_batch
\* check_response_status: "" for Ok(()), else the error's kind
check_response_status(status) ==
    IF status \in {200, 201, 202} THEN "" ELSE "NetworkError"

\* the values of the u16 field `shots` of an IqmRunRequest
ShotsRange == 65536

\* HTTP statuses the endpoint answers with
ResponseStatuses == {200, 201, 202, 400, 500}

SubmitInit ==
    /\ \E n \in ShotCounts, device \in Devices,
          number_measurements_internal \in {None, Some(MaxShots + 1), Some(ShotsRange + 1)} :
          \E len \in 0..MaxBatch : \E circuit_batch \in [1..len -> BatchCircuits(n)] :
             sub = [pc |-> "validate", circuit_batch |-> circuit_batch, device |-> device,
                    number_measurements_internal |-> number_measurements_internal,
                    circuit_index |-> 0, circuits |-> <<>>, number_measurements_set |-> {},
                    shots |-> 0, http_posts |-> 0, validation |-> "unchecked", err |-> "",
                    job_id |-> None]
    /\ call = CallIdle /\ ls = LsIdle /\ rr = RrIdle /\ poll = PollIdle

SubmitFail(kind) == [sub EXCEPT !.pc = "returned", !.err = kind]

\* SubmitValidate that goes on to the translation whatever the validation says
SubmitValidate_Ignored ==
    /\ sub.pc = "validate"
    /\ sub' = [sub EXCEPT !.pc = "translate",
                           !.validation = validate_circuit_batch(sub.device, sub.circuit_batch)]
    /\ UNCHANGED <<call, ls, rr, poll>>

\* self.validate_circuit_batch(circuit_batch)?
SubmitValidate ==
    /\ sub.pc = "validate"
    /\ LET valid == validate_circuit_batch(sub.device, sub.circuit_batch)
       IN sub' = IF valid # ""
                 THEN [SubmitFail(valid) EXCEPT !.validation = valid]
                 ELSE [sub EXCEPT !.pc = "translate", !.validation = valid]
    /\ UNCHANGED <<call, ls, rr, poll>>

\* one iteration of `for (circuit_index, circuit) in circuit_batch.iter().enumerate()`
SubmitTranslate ==
    /\ sub.pc = "translate"
    /\ sub.circuit_index < Len(sub.circuit_batch)
    /\ LET r == call_circuit(sub.circuit_batch[sub.circuit_index + 1],
                             sub.device.number_qubits, sub.number_measurements_internal)
       IN sub' = IF r.err # "" THEN SubmitFail(r.err)
                 ELSE [sub EXCEPT !.circuits = Append(@, r.circuit_vec),
                                  !.number_measurements_set = @ \cup {r.number_measurements},
                                  !.circuit_index = @ + 1]
    /\ UNCHANGED <<call, ls, rr, poll>>

\* SubmitCheckShots without the comparison of the shot counts: the first is taken
SubmitCheckShots_AnyCount ==
    /\ sub.pc = "translate"
    /\ sub.circuit_index = Len(sub.circuit_batch)
    /\ sub' = IF sub.number_measurements_set = {}
              THEN SubmitFail("InvalidCircuit")
              ELSE [sub EXCEPT !.pc = "client",
                               !.shots = (CHOOSE x \in sub.number_measurements_set : TRUE) % ShotsRange]
    /\ UNCHANGED <<call, ls, rr, poll>>

\* if number_measurements_set.len() != 1 { return Err(InvalidCircuit) }, and
\* shots: number_measurements as u16
SubmitCheckShots ==
    /\ sub.pc = "translate"
    /\ sub.circuit_index = Len(sub.circuit_batch)
    /\ sub' = IF Cardinality(sub.number_measurements_set) # 1
              THEN SubmitFail("InvalidCircuit")
              ELSE [sub EXCEPT !.pc = "client",
                               !.shots = (CHOOSE x \in sub.number_measurements_set : TRUE) % ShotsRange]
    /\ UNCHANGED <<call, ls, rr, poll>>

\* reqwest::blocking::Client::builder().https_only(true).build()
SubmitClient ==
    /\ sub.pc = "client"
    /\ \E built \in BOOLEAN :
          sub' = IF built THEN [sub EXCEPT !.pc = "post"] ELSE SubmitFail("NetworkError")
    /\ UNCHANGED <<call, ls, rr, poll>>

\* client.post(..).json(&data).send(): the request leaves, the answer may not come
SubmitPost ==
    /\ sub.pc = "post"
    /\ \E answered \in BOOLEAN :
          sub' = IF answered
                 THEN [sub EXCEPT !.pc = "response", !.http_posts = @ + 1]
                 ELSE [SubmitFail("NetworkError") EXCEPT !.http_posts = @ + 1]
    /\ UNCHANGED <<call, ls, rr, poll>>

\* check_response_status(&response)?, then the job id of the body (expect panics
\* on a body that does not deserialize)
SubmitResponse ==
    /\ sub.pc = "response"
    /\ \E status \in ResponseStatuses, parsed \in BOOLEAN :
          sub' = IF check_response_status(status) # ""
                 THEN SubmitFail(check_response_status(status))
                 ELSE IF ~parsed THEN SubmitFail("Panic")
                 ELSE [sub EXCEPT !.pc = "returned", !.job_id = Some("job")]
    /\ UNCHANGED <<call, ls, rr, poll>>

SubmitNext ==
    \/ SubmitValidate
    \/ SubmitTranslate
    \/ SubmitCheckShots
    \/ SubmitClient
    \/ SubmitPost
    \/ SubmitResponse

SpecSubmit == SubmitInit /\ [][SubmitNext]_vars

\* ------------------------------------------------------------------ C5
\* two different circuits of the batch declare an output register of the same name
SharedOutputRegister(circuit_batch) ==
    \E a, b \in 1..Len(circuit_batch) :
        a # b /\ OutputRegisters(circuit_batch[a]) \cap OutputRegisters(circuit_batch[b]) # {}

\* every circuit of the batch passes validate_circuit and declares an output register
EachCircuitValid(device, circuit_batch) ==
    \A a \in 1..Len(circuit_batch) :
        validate_circuit(device, circuit_batch[a]) = "" /\ OutputRegisters(circuit_batch[a]) # {}

\* C5 as claimed: validate_circuit_batch returns InvalidCircuit for every batch
\* (of circuits that are valid one by one) in which two different circuits
\* declare an output register of the same name, however many other output
\* registers the batch declares.
C5_SharedRegisterRejected ==
    (/\ sub.validation # "unchecked"
     /\ EachCircuitValid(sub.device, sub.circuit_batch)
     /\ SharedOutputRegister(sub.circuit_batch))
    => sub.validation = "InvalidCircuit"

\* ------------------------------------------------------------------ C9, C10
Translated(a) ==
    call_circuit(sub.circuit_batch[a], sub.device.number_qubits,
                 sub.number_measurements_internal)

AllTranslate == \A a \in 1..Len(sub.circuit_batch) : Translated(a).err = ""

\* the shot counts of the circuits of the batch that translate
ShotCountsOf ==
    {Translated(a).number_measurements :
        a \in {h \in 1..Len(sub.circuit_batch) : Translated(h).err = ""}}

\* the error of the first local step that fails, "" if none does
LocalError ==
    LET valid == validate_circuit_batch(sub.device, sub.circuit_batch)
        failing == {a \in 1..Len(sub.circuit_batch) : Translated(a).err # ""}
    IN IF valid # "" THEN valid
       ELSE IF failing # {}
       THEN Translated(CHOOSE a \in failing : \A h \in failing : a <= h).err
       ELSE IF Cardinality(ShotCountsOf) # 1 THEN "InvalidCircuit"
       ELSE ""

\* C9: a submission request has been sent only if validate_circuit_batch
\* succeeded, every circuit translated and all circuits gave one shot count; when
\* one of these steps fails the call returns that step's error, without a job id
\* and without any HTTP request.
C9_NoRequestBeforeLocalChecks ==
    /\ sub.http_posts > 0 => LocalError = ""
    /\ LocalError # "" => sub.http_posts = 0
    /\ (LocalError # "" /\ sub.pc = "returned")
       => (sub.err = LocalError /\ sub.job_id = None)

\* a batch of two circuits was validated, translated and posted once
C9_Witness ==
    /\ sub.pc = "returned"
    /\ Len(sub.circuit_batch) = 2
    /\ sub.http_posts = 1
    /\ sub.job_id # None

DifferentShotCounts == Cardinality(ShotCountsOf) > 1

\* C10 as claimed: without an override, submit_circuit_batch returns
\* InvalidCircuit for every batch whose circuits do not all translate to the
\* same shot count.
C10_DifferentShotsInvalidCircuit ==
    (/\ sub.pc = "returned"
     /\ sub.number_measurements_internal = None
     /\ DifferentShotCounts)
    => sub.err = "InvalidCircuit"

\* C10 amended: without an override, submit_circuit_batch fails and sends no
\* request for every batch whose circuits do not all translate to the same shot
\* count; the error is InvalidCircuit when the batch passes validate_circuit_batch
\* and every circuit translates, and otherwise the error of the validation or
\* translation that failed first.
C10_DifferentShotsRejected ==
    (/\ sub.pc = "returned"
     /\ sub.number_measurements_internal = None
     /\ DifferentShotCounts)
    => /\ sub.err # ""
       /\ sub.err = LocalError
       /\ sub.http_posts = 0
       /\ (sub.validation = "" /\ AllTranslate) => sub.err = "InvalidCircuit"

\* a valid batch whose two circuits translate to different shot counts was refused
C10_Witness ==
    /\ sub.pc = "returned"
    /\ sub.number_measurements_internal = None
    /\ sub.validation = ""
    /\ AllTranslate
    /\ DifferentShotCounts
    /\ sub.err = "InvalidCircuit"

\* ------------------------------------------------------------------ call_circuit on a roqoqo Circuit
\* Circuit::iter() yields the definitions before the operations: the stream is
\* one or two output DefinitionBit (ro, then rb) followed by the operations.
\* Most operations after the definitions.
MaxBody == 3

IsNotDefinitionBit(o) == o.k # "DefinitionBit"

BodyOf(ops) == SelectSeq(ops, IsNotDefinitionBit)

OnlyDefinitions(ops) == BodyOf(ops) = <<>>

CanDeclare == call.pc = "loop" /\ OnlyDefinitions(call.ops) /\ Len(call.ops) < 2

CanOperate == call.pc = "loop" /\ Len(call.ops) >= 1 /\ Len(BodyOf(call.ops)) < MaxBody

CircuitInit ==
    /\ call \in {CallInit(MaxQubit + 1, nmi) : nmi \in {None, Some(MaxShots + 1)}}
    /\ ls = LsIdle /\ rr = RrIdle /\ poll = PollIdle /\ sub = SubIdle

CircuitDefinitionBit ==
    /\ CanDeclare
    /\ \E n \in RegLens :
          LET o == DefinitionBit(IF call.ops = <<>> THEN "ro" ELSE "rb", n, TRUE)
          IN call' = Consume(CallDefinitionBit(call, o), o)
    /\ UNCHANGED <<ls, rr, poll, sub>>

CircuitMeasureQubit ==
    /\ CanOperate
    /\ \E q \in Qubits, r \in RegNames :
          LET o == MeasureQubit(q, r, MaxQubit - q)
          IN call' = Consume(CallMeasureQubit(call, o), o)
    /\ UNCHANGED <<ls, rr, poll, sub>>

CircuitPragmaSetNumberOfMeasurements ==
    /\ CanOperate
    /\ \E o \in SetNumberOps : call' = Consume(CallPragmaSetNumberOfMeasurements(call, o), o)
    /\ UNCHANGED <<ls, rr, poll, sub>>

CircuitPragmaRepeatedMeasurement ==
    /\ CanOperate
    /\ \E r \in RegNames, n \in ShotCounts :
          LET o == PragmaRepeatedMeasurement(r, n, None)
          IN call' = Consume(CallPragmaRepeatedMeasurement(call, o, call.device_number_qubits), o)
    /\ UNCHANGED <<ls, rr, poll, sub>>

CircuitRotateXY ==
    /\ CanOperate
    /\ LET o == RotateXY(0, FALSE)
       IN call' = Consume(CallOther(call, o), o)
    /\ UNCHANGED <<ls, rr, poll, sub>>

\* the iterator is exhausted
CircuitReturn ==
    /\ call.pc = "loop"
    /\ call' = [CallReturn(call, call.number_measurements_internal) EXCEPT !.pc = "returned"]
    /\ UNCHANGED <<ls, rr, poll, sub>>

CircuitNext ==
    \/ CircuitDefinitionBit
    \/ CircuitMeasureQubit
    \/ CircuitPragmaSetNumberOfMeasurements
    \/ CircuitPragmaRepeatedMeasurement
    \/ CircuitRotateXY
    \/ CircuitReturn

SpecCircuit == CircuitInit /\ [][CircuitNext]_vars

\* ------------------------------------------------------------------ C11
IsSetNumber(o) == o.k = "PragmaSetNumberOfMeasurements"

\* the circuit declares two output registers, measures distinct qubits into both
\* with MeasureQubit, and holds one PragmaSetNumberOfMeasurements per register,
\* both with the same shot count
MeasuresTwoRegisters(circuit) ==
    LET ms == MeasureQubitsOf(circuit)
        sets == SelectSeq(circuit, IsSetNumber)
    IN /\ OutputRegisters(circuit) = RegNames
       /\ \A r \in RegNames : \E a \in 1..Len(ms) : ms[a].r = r
       /\ \A a, b \in 1..Len(ms) : a # b => ms[a].q # ms[b].q
       /\ Len(sets) = 2 /\ sets[1].r # sets[2].r /\ sets[1].n = sets[2].n
       /\ \A j \in 1..Len(circuit) : circuit[j].k # "PragmaRepeatedMeasurement"

\* C11 as claimed: a valid circuit that measures into two declared output
\* registers and sets the same shot count once per register is translated: the
\* submission gets past the translation loop.
C11_TwoRegistersTranslated ==
    (/\ sub.pc = "returned"
     /\ Len(sub.circuit_batch) = 1
     /\ MeasuresTwoRegisters(sub.circuit_batch[1])
     /\ sub.validation = "")
    => sub.circuit_index = 1

\* ------------------------------------------------------------------ C12
SetNumbersOf(ops) == SelectSeq(ops, IsSetNumber)

\* PragmaSetNumberOfMeasurements occurs more than once, with different shot counts
ConflictingShotCounts(ops) ==
    LET sets == SetNumbersOf(ops)
    IN \E a, b \in 1..Len(sets) : sets[a].n # sets[b].n

\* C12 as claimed: call_circuit fails for every stream in which
\* PragmaSetNumberOfMeasurements occurs more than once with different shot
\* counts, whatever the counts are (also when the first count is 1).
C12_ConflictingShotCountsRejected ==
    (call.pc = "returned" /\ ConflictingShotCounts(call.ops)) => call.err # ""

\* ------------------------------------------------------------------ C13
\* an output DefinitionBit of register r occurred in the stream
Declared(ops, r) ==
    \E j \in 1..Len(ops) : ops[j].k = "DefinitionBit" /\ ops[j].out /\ ops[j].r = r

\* the length given by the last output DefinitionBit of register r
DeclaredLength(ops, r) ==
    LET decls == {j \in 1..Len(ops) : ops[j].k = "DefinitionBit" /\ ops[j].out /\ ops[j].r = r}
    IN ops[CHOOSE j \in decls : \A h \in decls : h <= j].n

\* the qubits of the MeasureQubit operations of the stream, in call order
MeasuredSoFar(ops) ==
    LET ms == MeasureQubitsOf(ops)
    IN [j \in 1..Len(ms) |-> ms[j].q]

\* the step from call to call' processes the PragmaSetNumberOfMeasurements o
ProcessesSetNumber(o) ==
    /\ call.pc = "loop"
    /\ call'.ops = Append(call.ops, o)
    /\ o.k = "PragmaSetNumberOfMeasurements"

\* what C13 says of processing PragmaSetNumberOfMeasurements(n, r) on a declared r
SetNumberOutcome(o) ==
    IF Len(MeasuredSoFar(call.ops)) > DeclaredLength(call.ops, o.r)
    THEN call'.err = "RegisterTooSmall"
    ELSE /\ call'.err = ""
         /\ call'.number_measurements = o.n
         /\ SelectSeq(call'.circuit_vec, IsMeasure) =
               << IqmInstruction("measure",
                       [j \in 1..Len(MeasuredSoFar(call.ops)) |->
                            ConvertQubitNameQoqoToIqm(MeasuredSoFar(call.ops)[j])],
                       o.r) >>
         /\ IsMeasure(call'.circuit_vec[Len(call'.circuit_vec)])
         /\ SelectSeq(call'.circuit_vec, IsNotMeasure) = SelectSeq(call.circuit_vec, IsNotMeasure)

\* C13 as claimed: processing PragmaSetNumberOfMeasurements(n, r) on a declared
\* register r (no different shot count above 1 having been set before) fails with
\* RegisterTooSmall if more qubits were measured so far than r is long, and
\* otherwise sets the shot count to n, removes every earlier `measure` and
\* appends one `measure` keyed r over exactly the qubits measured so far, in call
\* order, the other instructions keeping their order.
C13_SetNumberOnDeclaredRegister ==
    [][\A o \in SetNumberOps :
          (/\ ProcessesSetNumber(o)
           /\ Declared(call.ops, o.r)
           /\ ~(call.number_measurements > 1 /\ call.number_measurements # o.n))
          => SetNumberOutcome(o)]_vars

\* ------------------------------------------------------------------ C14
\* no register name is declared by two DefinitionBit operations
DeclaredOnce(ops) ==
    \A a, b \in 1..Len(ops) :
        (a # b /\ ops[a].k = "DefinitionBit" /\ ops[b].k = "DefinitionBit") => ops[a].r # ops[b].r

\* the stream's measurements are MeasureQubit operations only
OnlyMeasureQubit(ops) ==
    \A j \in 1..Len(ops) :
        ops[j].k \notin {"PragmaSetNumberOfMeasurements", "PragmaRepeatedMeasurement"}

\* the readout indices of the MeasureQubit operations into register r, in call order
ReadoutIndices(ops, r) ==
    LET Into(o) == o.k = "MeasureQubit" /\ o.r = r
        ms == SelectSeq(ops, Into)
    IN [j \in 1..Len(ms) |-> ms[j].i]

\* C14: after call_circuit returns Ok for a stream whose measurements are only
\* MeasureQubit operations (each register declared once), the map holds for
\* every declared output register the readout indices of the MeasureQubit
\* operations into it, in call order, with the declared length (an empty list
\* when nothing was measured into it), and no entry for any other register.
C14_MapHoldsReadoutIndices ==
    (/\ call.pc = "returned" /\ call.err = ""
     /\ OnlyMeasureQubit(call.ops)
     /\ DeclaredOnce(call.ops))
    => \A r \in RegNames :
          call.measured_qubits_map[r] =
              IF Declared(call.ops, r)
              THEN Entry(ReadoutIndices(call.ops, r), DeclaredLength(call.ops, r))
              ELSE NoEntry

\* two qubits were measured into a declared register at readout indices that are
\* out of order, and the translation returned Ok
C14_Witness ==
    /\ call.pc = "returned" /\ call.err = ""
    /\ OnlyMeasureQubit(call.ops)
    /\ DeclaredOnce(call.ops)
    /\ \E r \in RegNames :
          /\ Declared(call.ops, r)
          /\ Len(ReadoutIndices(call.ops, r)) = 2
          /\ ReadoutIndices(call.ops, r)[1] > ReadoutIndices(call.ops, r)[2]
          /\ call.measured_qubits_map[r].idx = ReadoutIndices(call.ops, r)

\* ------------------------------------------------------------------ C15
\* every operation of the loop body is one call_operation accepts
AllTranslatable(body) == \A j \in 1..Len(body) : call_operation(body[j]).err = ""

\* the instructions of the body's operations, in order; a no-op gives none
RECURSIVE TranslatedBody(_)
TranslatedBody(body) ==
    IF body = <<>> THEN <<>>
    ELSE LET r == call_operation(Head(body))
         IN (IF r.instr = None THEN <<>> ELSE <<r.instr[1]>>) \o TranslatedBody(Tail(body))

RECURSIVE Repeated(_, _)
Repeated(instrs, n) == IF n <= 0 THEN <<>> ELSE instrs \o Repeated(instrs, n - 1)

\* C15: when call_circuit processes a PragmaLoop with a numeric repetition count
\* n whose body holds only translatable operations, the instructions of the body
\* (none for an allow-listed no-op) are appended n times over, in order, at the
\* loop's position, and nothing else changes in the emitted list.
C15_LoopInlined ==
    [][(/\ call.pc = "loop"
        /\ Len(call'.ops) = Len(call.ops) + 1
        /\ call'.ops[Len(call'.ops)].k = "PragmaLoop"
        /\ ~call'.ops[Len(call'.ops)].sym
        /\ AllTranslatable(call'.ops[Len(call'.ops)].body))
       => LET o == call'.ops[Len(call'.ops)]
          IN /\ call'.err = ""
             /\ call'.circuit_vec =
                   call.circuit_vec \o Repeated(TranslatedBody(o.body), o.n)]_vars

\* a loop of two repetitions over two gates and a no-op was inlined after an
\* earlier instruction: four more instructions
C15_Witness ==
    /\ call.err = ""
    /\ Len(call.ops) = 2
    /\ call.ops[2].k = "PragmaLoop" /\ ~call.ops[2].sym /\ call.ops[2].n = 2
    /\ Len(call.ops[2].body) = 3
    /\ Len(call.circuit_vec) = 5

\* ------------------------------------------------------------------ call_circuit on whole circuits
\* Longest operation stream handed to call_circuit as a whole.
MaxCircuit == 3

\* the operations the streams are made of
StreamOps ==
    {DefinitionBit("ro", MaxRegLen, TRUE), Plain("Hadamard")}
    \cup {MeasureQubit(q, "ro", q) : q \in Qubits}
    \cup {PragmaSetNumberOfMeasurements(n, "ro") : n \in ShotCounts}
    \cup {PragmaRepeatedMeasurement("ro", n, None) : n \in ShotCounts}
    \cup {RotateXY(0, sym) : sym \in BOOLEAN}
    \cup {PragmaLoop(2, sym, <<RotateXY(0, FALSE)>>) : sym \in BOOLEAN}

\* call.ops is the whole stream; returned is the Result: None for Err, Some of
\* the IqmCircuit's instructions and metadata for Ok
StreamInit ==
    /\ \E len \in 0..MaxCircuit : \E circuit \in [1..len -> StreamOps] :
       \E nmi \in {None, Some(MaxShots + 1)} :
          call = [CallInit(MaxQubit + 1, nmi) EXCEPT !.ops = circuit, !.pc = "called"]
    /\ ls = LsIdle /\ rr = RrIdle /\ poll = PollIdle /\ sub = SubIdle

StreamCall ==
    /\ call.pc = "called"
    /\ LET s == call_circuit(call.ops, call.device_number_qubits,
                             call.number_measurements_internal)
       IN call' = [call EXCEPT !.circuit_vec = s.circuit_vec,
                               !.number_measurements = s.number_measurements,
                               !.measured_qubits = s.measured_qubits,
                               !.measured_qubits_map = s.measured_qubits_map,
                               !.err = s.err,
                               !.pc = "returned"]
    /\ UNCHANGED <<ls, rr, poll, sub>>

StreamNext == StreamCall

SpecStream == StreamInit /\ [][StreamNext]_vars

\* ------------------------------------------------------------------ C16
IsSymbolicLoop(o) == o.k = "PragmaLoop" /\ o.sym

HasSymbolicLoop(ops) == \E j \in 1..Len(ops) : IsSymbolicLoop(ops[j])

\* the operations before the first PragmaLoop with a symbolic repetition count
BeforeSymbolicLoop(ops) ==
    LET loops == {j \in 1..Len(ops) : IsSymbolicLoop(ops[j])}
        first == CHOOSE j \in loops : \A h \in loops : j <= h
    IN SubSeq(ops, 1, first - 1)

\* C16 as claimed: call_circuit returns InvalidCircuit for every stream that
\* contains a PragmaLoop with a symbolic repetition count.
C16_SymbolicLoopInvalidCircuit ==
    (call.pc = "returned" /\ HasSymbolicLoop(call.ops)) => call.err = "InvalidCircuit"

\* C16 amended: call_circuit fails, returning no circuit, for every stream that
\* contains a PragmaLoop with a symbolic repetition count; the error is
\* InvalidCircuit when the operations before that loop translate, and otherwise
\* the error of the earlier operation.
C16_SymbolicLoopRejected ==
    (call.pc = "returned" /\ HasSymbolicLoop(call.ops))
    => LET before == CallLoop(CallLocals, BeforeSymbolicLoop(call.ops), call.device_number_qubits)
       IN /\ call.err # ""
          /\ call.err = IF before.err # "" THEN before.err ELSE "InvalidCircuit"
          /\ call.circuit_vec = before.circuit_vec

\* a gate, then a loop with a symbolic count: InvalidCircuit, nothing of the loop emitted
C16_Witness ==
    /\ call.pc = "returned"
    /\ Len(call.ops) >= 2
    /\ call.ops[1] = RotateXY(0, FALSE)
    /\ IsSymbolicLoop(call.ops[2])
    /\ call.err = "InvalidCircuit"
    /\ Len(call.circuit_vec) = 1

\* ------------------------------------------------------------------ C17
IsRepeatedMeasurement(o) == o.k = "PragmaRepeatedMeasurement"

RepeatedMeasurementsOf(ops) == {j \in 1..Len(ops) : IsRepeatedMeasurement(ops[j])}

MixesMeasurementStyles(ops) ==
    /\ RepeatedMeasurementsOf(ops) # {}
    /\ \E j \in 1..Len(ops) : IsMeasureQubitOp(ops[j])

\* C17: call_circuit fails for every stream that holds both a
\* PragmaRepeatedMeasurement and a MeasureQubit, in either order, and for every
\* stream that holds more than one PragmaRepeatedMeasurement.
C17_OneMeasurementStyle ==
    (/\ call.pc = "returned"
     /\ \/ MixesMeasurementStyles(call.ops)
        \/ Cardinality(RepeatedMeasurementsOf(call.ops)) > 1)
    => call.err # ""

\* ------------------------------------------------------------------ validate_circuit on single circuits
\* circuit.definitions(): none, one output register, or two
ValidateDefinitions ==
    {<<>>}
    \cup {<<DefinitionBit("ro", len, TRUE)>> : len \in RegLens}
    \cup {<<DefinitionBit("ro", len, TRUE), DefinitionBit("rb", MaxRegLen, TRUE)>> : len \in RegLens}

\* circuit.operations() are drawn from these
ValidateOps ==
    {MeasureQubit(q, "ro", q) : q \in Qubits}
    \cup {MeasureQubit(q, "rb", 0) : q \in Qubits}
    \cup {RotateXY(q, FALSE) : q \in Qubits}
    \cup {PragmaRepeatedMeasurement("ro", 1, None), Plain("Hadamard")}
    \cup {MeasureQubit(DenebDevice.number_qubits, "ro", 0),
          RotateXY(DenebDevice.number_qubits, FALSE),
          SingleExcitationStore(DenebDevice.number_qubits, 0)}

\* circuit.iter() yields the definitions first, then the operations
ValidateInit ==
    /\ \E definitions \in ValidateDefinitions, device \in Devices :
       \E len \in 0..MaxCircuit : \E operations \in [1..len -> ValidateOps] :
          sub = [pc |-> "validate", device |-> device,
                 circuit |-> definitions \o operations, validation |-> ""]
    /\ call = CallIdle /\ ls = LsIdle /\ rr = RrIdle /\ poll = PollIdle

ValidateCall ==
    /\ sub.pc = "validate"
    /\ sub' = [sub EXCEPT !.validation = validate_circuit(sub.device, sub.circuit),
                          !.pc = "validated"]
    /\ UNCHANGED <<call, ls, rr, poll>>

ValidateNext == ValidateCall

SpecValidate == ValidateInit /\ [][ValidateNext]_vars

\* ------------------------------------------------------------------ C18
\* two MeasureQubit operations have the same qubit as target
MeasuresQubitTwice(circuit) ==
    \E j, h \in 1..Len(circuit) :
        /\ j < h
        /\ IsMeasureQubitOp(circuit[j]) /\ IsMeasureQubitOp(circuit[h])
        /\ circuit[j].q = circuit[h].q

\* a PragmaRepeatedMeasurement comes after a MeasureQubit or after another
\* PragmaRepeatedMeasurement
RepeatedAfterMeasurement(circuit) ==
    \E j, h \in 1..Len(circuit) :
        /\ j < h
        /\ IsMeasureQubitOp(circuit[j]) \/ IsRepeatedMeasurement(circuit[j])
        /\ IsRepeatedMeasurement(circuit[h])

MeasuresTwice(circuit) == MeasuresQubitTwice(circuit) \/ RepeatedAfterMeasurement(circuit)

\* the first measuring operation of the circuit is a PragmaRepeatedMeasurement
RepeatedComesFirst(circuit) ==
    \E h \in 1..Len(circuit) :
        /\ IsRepeatedMeasurement(circuit[h])
        /\ \A j \in 1..(h - 1) : ~IsMeasureQubitOp(circuit[j])

\* C18 as claimed: validate_circuit returns InvalidCircuit whenever two
\* MeasureQubit operations have the same qubit as target, and whenever a
\* PragmaRepeatedMeasurement comes after a MeasureQubit or after another
\* PragmaRepeatedMeasurement.
C18_MeasuredTwiceInvalidCircuit ==
    (sub.pc = "validated" /\ MeasuresTwice(sub.circuit)) => sub.validation = "InvalidCircuit"

\* C18 amended: validate_circuit fails on every such circuit; the error is
\* InvalidCircuit unless an earlier check fails first: EmptyCircuit when no
\* operation names a qubit, the error of the device's gate-set and connectivity
\* check (on Deneb possibly OperationNotInBackend), or RegisterTooSmall of a leading PragmaRepeatedMeasurement whose register is
\* shorter than the number of qubits of the circuit.
C18_MeasuredTwiceRejected ==
    (sub.pc = "validated" /\ MeasuresTwice(sub.circuit))
    => LET number_qubits == get_number_qubits(sub.circuit)
           onDevice == IF sub.device.name = "Deneb"
                       THEN deneb_validate_circuit(sub.circuit)
                       ELSE IF validate_circuit_connectivity(sub.device, sub.circuit) # ""
                       THEN "InvalidCircuit" ELSE ""
       IN /\ sub.validation # ""
          /\ sub.validation =
                IF number_qubits = None THEN "EmptyCircuit"
                ELSE IF onDevice # "" THEN onDevice
                ELSE IF /\ RepeatedComesFirst(sub.circuit)
                        /\ number_qubits[1] > ReadoutLength(sub.circuit)
                THEN "RegisterTooSmall"
                ELSE "InvalidCircuit"

\* one qubit measured into two different registers, on a circuit that passes
\* every earlier check
C18_Witness ==
    /\ sub.pc = "validated"
    /\ sub.circuit = <<DefinitionBit("ro", MaxRegLen, TRUE), DefinitionBit("rb", MaxRegLen, TRUE),
                       MeasureQubit(0, "ro", 0), MeasureQubit(0, "rb", 0)>>
    /\ sub.validation = "InvalidCircuit"

\* ------------------------------------------------------------------ C19
\* an earlier MeasureQubit of the stream measured o's qubit into o's register
AlreadyMeasured(ops, o) ==
    \E j \in 1..Len(ops) :
        IsMeasureQubitOp(ops[j]) /\ ops[j].q = o.q /\ ops[j].r = o.r

\* C19: when call_circuit processes a MeasureQubit whose qubit an earlier
\* MeasureQubit of the stream measured into the same register, it returns
\* InvalidCircuit.
C19_MeasuredTwiceSameRegister ==
    [][(/\ call.pc = "loop"
        /\ Len(call'.ops) = Len(call.ops) + 1
        /\ IsMeasureQubitOp(call'.ops[Len(call'.ops)])
        /\ AlreadyMeasured(call.ops, call'.ops[Len(call'.ops)]))
       => /\ call'.pc = "returned"
          /\ call'.err = "InvalidCircuit"]_vars

\* the second measurement of the qubit was processed, with another
\* measurement in between
C19_Witness ==
    /\ call.pc = "returned"
    /\ Len(call.ops) >= 4
    /\ IsMeasureQubitOp(call.ops[Len(call.ops)])
    /\ AlreadyMeasured(SubSeq(call.ops, 1, Len(call.ops) - 2), call.ops[Len(call.ops)])
    /\ IsMeasureQubitOp(call.ops[Len(call.ops) - 1])
    /\ call.err = "InvalidCircuit"

\* ------------------------------------------------------------------ C20
NamesRegister(o) ==
    o.k \in {"MeasureQubit", "PragmaSetNumberOfMeasurements", "PragmaRepeatedMeasurement"}

\* C20: when call_circuit processes a MeasureQubit, PragmaSetNumberOfMeasurements
\* or PragmaRepeatedMeasurement whose register no earlier output DefinitionBit of
\* the stream declared, it returns InvalidCircuit.
C20_UndeclaredRegisterRejected ==
    [][(/\ call.pc = "loop"
        /\ Len(call'.ops) = Len(call.ops) + 1
        /\ NamesRegister(call'.ops[Len(call'.ops)])
        /\ ~Declared(call.ops, call'.ops[Len(call'.ops)].r))
       => /\ call'.pc = "returned"
          /\ call'.err = "InvalidCircuit"]_vars

\* a PragmaRepeatedMeasurement into a register that only a DefinitionBit that
\* is not an output declared
C20_Witness ==
    /\ call.pc = "returned"
    /\ Len(call.ops) = 2
    /\ IsDefinitionBit(call.ops[1]) /\ ~call.ops[1].out
    /\ IsRepeatedMeasurement(call.ops[2]) /\ call.ops[2].r = call.ops[1].r
    /\ call.err = "InvalidCircuit"

\* ------------------------------------------------------------------ C21
\* a PragmaRepeatedMeasurement targets a declared register that is shorter than
\* the device's number of qubits
RepeatedIntoShortRegister(device, circuit) ==
    \E h \in 1..Len(circuit) :
        /\ IsRepeatedMeasurement(circuit[h])
        /\ Declared(circuit, circuit[h].r)
        /\ DeclaredLength(circuit, circuit[h].r) < device.number_qubits

\* C21: validate_circuit rejects every circuit in which a
\* PragmaRepeatedMeasurement targets a register whose declared length is smaller
\* than the device's number of qubits (the claim names RegisterTooSmall; the
\* formula asks only for a rejection).
C21_ShortRegisterRejected ==
    (sub.pc = "validated" /\ RepeatedIntoShortRegister(sub.device, sub.circuit))
    => sub.validation # ""

\* ------------------------------------------------------------------ C22
\* an operation of the circuit acts on a qubit the device does not have
ActsBeyondDevice(device, circuit) ==
    \E j \in 1..Len(circuit) :
        \E q \in InvolvedQubitsSet(circuit[j]) : q >= device.number_qubits

\* C22: validate_circuit rejects every circuit with an operation (gate,
\* resonator Load, Store or CZ, or measurement) that acts on a qubit index
\* greater than or equal to the device's number of qubits, on either device
\* (the claim names InvalidCircuit; the formula asks only for a rejection).
C22_QubitBeyondDeviceRejected ==
    (sub.pc = "validated" /\ ActsBeyondDevice(sub.device, sub.circuit))
    => sub.validation # ""

\* ------------------------------------------------------------------ C23
\* no operation of the circuit names a concrete set of qubits
NamesNoQubit(circuit) == \A j \in 1..Len(circuit) : InvolvedQubitsSet(circuit[j]) = {}

\* the device's own check (gate set, connectivity, Load/Store order) passes
DeviceLegal(device, circuit) ==
    IF device.name = "Deneb"
    THEN deneb_validate_circuit(circuit) = ""
    ELSE validate_circuit_connectivity(device, circuit) = ""

HasNoMeasurement(circuit) ==
    \A j \in 1..Len(circuit) :
        ~IsMeasureQubitOp(circuit[j]) /\ ~IsRepeatedMeasurement(circuit[j])

\* C23: validate_circuit returns EmptyCircuit for every circuit none of whose
\* operations names a concrete set of qubits, whatever else is wrong with it,
\* and InvalidCircuit for every circuit that names a qubit, passes the device's
\* check and has neither a MeasureQubit nor a PragmaRepeatedMeasurement.
C23_EmptyAndUnmeasured ==
    sub.pc = "validated"
    => /\ NamesNoQubit(sub.circuit) => sub.validation = "EmptyCircuit"
       /\ (/\ ~NamesNoQubit(sub.circuit)
           /\ DeviceLegal(sub.device, sub.circuit)
           /\ HasNoMeasurement(sub.circuit))
          => sub.validation = "InvalidCircuit"

\* a circuit of two PragmaRepeatedMeasurement, which the measurement loop would
\* reject, is reported as empty
C23_Witness ==
    /\ sub.pc = "validated"
    /\ NamesNoQubit(sub.circuit)
    /\ RepeatedAfterMeasurement(sub.circuit)
    /\ sub.validation = "EmptyCircuit"

\* ------------------------------------------------------------------ C24
\* wait_for_results returned an Err (a panic returns nothing)
PollReturnedError ==
    poll.pc = "returned" /\ poll.result.kind \notin {"Ok", "Panic"}

\* C24: every error wait_for_results returns for its job (failed, aborted,
\* timed out, network error while polling) carries the job's ID.
C24_ErrorsCarryJobId ==
    PollReturnedError => poll.result.id = Some(poll.id)

\* ------------------------------------------------------------------ C25
\* C25: when results_to_registers returns Ok, every register the request's
\* metadata declares is among the returned bit registers, and a register with an
\* empty index list (nothing measured into it) holds rows of the declared length
\* that are false throughout.
C25_DeclaredRegistersReturned ==
    (rr.pc = "returned" /\ rr.err = "")
    => \A reg \in RegNames :
          rr.measured_qubits_map[reg].def
          => /\ rr.bit_registers[reg] # None
             /\ rr.measured_qubits_map[reg].idx = <<>>
                => \A sh \in 1..Len(rr.bit_registers[reg][1]) :
                      rr.bit_registers[reg][1][sh] =
                          [b \in 1..rr.measured_qubits_map[reg].len |-> FALSE]

\* ------------------------------------------------------------------ C26
\* the server's payload has no entry for the register in any circuit's result
AbsentFromPayload(results, reg) ==
    /\ results.measurements # None
    /\ \A c \in 1..Len(results.measurements[1]) : results.measurements[1][c][reg] = None

\* the MeasuredQubitsMap of the metadata holds a register with measured qubits
\* that the payload does not mention
MeasuredButAbsent(results) ==
    LET m == get_measured_qubits_map(results)
    IN /\ m.err = ""
       /\ \E reg \in RegNames :
             /\ m.map[reg].def
             /\ m.map[reg].idx # <<>>
             /\ AbsentFromPayload(results, reg)

\* C26: results_to_registers returns an error whenever the MeasuredQubitsMap
\* holds a register with a non-empty index list for which the server's
\* measurement payload has no entry.
C26_MissingPayloadRejected ==
    (rr.pc = "returned" /\ MeasuredButAbsent(rr.results)) => rr.err # ""

\* ------------------------------------------------------------------ C27
\* the payload names a register that the MeasuredQubitsMap recovered from the
\* metadata does not hold
PayloadNamesUnknownRegister(results) ==
    LET m == get_measured_qubits_map(results)
    IN /\ m.err = ""
       /\ results.measurements # None
       /\ \E reg \in RegNames :
             /\ ~m.map[reg].def
             /\ \E c \in 1..Len(results.measurements[1]) :
                   results.measurements[1][c][reg] # None

\* C27: results_to_registers returns InvalidResults, and no registers, whenever
\* the server's payload names a register without an entry in the
\* MeasuredQubitsMap recovered from the request metadata.
C27_UnknownRegisterInvalidResults ==
    (rr.pc = "returned" /\ PayloadNamesUnknownRegister(rr.results))
    => rr.err = "InvalidResults"

\* ------------------------------------------------------------------ C28
\* the positions of the operations that set a shot count
SetsShotCount(ops) ==
    {j \in 1..Len(ops) : IsSetNumber(ops[j]) \/ IsRepeatedMeasurement(ops[j])}

\* the count the circuit leaves in force: that of its last count-setting
\* operation, 1 if it has none
CircuitShotCount(ops) ==
    IF SetsShotCount(ops) = {} THEN 1
    ELSE ops[CHOOSE j \in SetsShotCount(ops) : \A h \in SetsShotCount(ops) : h <= j].n

\* C28: a successful call_circuit returns the backend's override when there is
\* one, whatever counts the circuit's PragmaSetNumberOfMeasurements and
\* PragmaRepeatedMeasurement operations set; without an override it returns the
\* circuit's count, 1 when the circuit sets none.
C28_OverrideWins ==
    (call.pc = "returned" /\ call.err = "")
    => call.number_measurements =
          IF call.number_measurements_internal # None
          THEN call.number_measurements_internal[1]
          ELSE CircuitShotCount(call.ops)

\* a circuit that sets its own count was translated under an override
C28_Witness ==
    /\ call.pc = "returned" /\ call.err = ""
    /\ call.number_measurements_internal # None
    /\ SetsShotCount(call.ops) # {}
    /\ CircuitShotCount(call.ops) # call.number_measurements_internal[1]
    /\ call.number_measurements = call.number_measurements_internal[1]

\* ------------------------------------------------------------------ C29
\* the operations call_operation maps to an instruction
MappedGates ==
    {"RotateXY", "ControlledPauliZ", "CZQubitResonator", "SingleExcitationLoad",
     "SingleExcitationStore"}

Unsupported(o) == o.k \notin MappedGates \cup ALLOWED_OPERATIONS

\* the loop body meets an unsupported operation before any other failure
BodyMeetsUnsupported(body) ==
    \E j \in 1..Len(body) :
        /\ Unsupported(body[j])
        /\ \A h \in 1..(j - 1) : call_operation(body[h]).err = ""

MappedIn(body) == {j \in 1..Len(body) : body[j].k \in MappedGates}

MaxTokens == 3
\* Most requests sent by one backend.
MaxRequests == 2

Tokens == 1..MaxTokens

\* the environment variable IQM_TOKEN: not set, set to bytes that are not valid
\* Unicode, or set to a token
EnvUnset == [present |-> FALSE, unicode |-> TRUE, value |-> 0]
EnvNotUnicode == [present |-> TRUE, unicode |-> FALSE, value |-> 0]
EnvToken(t) == [present |-> TRUE, unicode |-> TRUE, value |-> t]
EnvStates == {EnvUnset, EnvNotUnicode} \cup {EnvToken(t) : t \in Tokens}

\* std::env::var: Err(NotPresent), Err(NotUnicode) or Ok(value)
var(env) ==
    IF ~env.present THEN [err |-> "NotPresent", value |-> 0]
    ELSE IF ~env.unicode THEN [err |-> "NotUnicode", value |-> 0]
    ELSE [err |-> "", value |-> env.value]

\* _get_token_from_env_var: any error of var becomes a TokenError
get_token_from_env_var(env) ==
    IF var(env).err # "" THEN [err |-> "TokenError", value |-> 0]
    ELSE [err |-> "", value |-> var(env).value]

\* Backend::new that reads the environment before it looks at its argument
Backend_new_EnvFirst(device, access_token, env) ==
    LET from_env == get_token_from_env_var(env)
    IN IF from_env.err = ""
       THEN [err |-> "", backend |-> Some([device |-> device, access_token |-> from_env.value,
                                          number_measurements_internal |-> None])]
       ELSE IF access_token = None
       THEN [err |-> "MissingAuthentification", backend |-> None]
       ELSE [err |-> "", backend |-> Some([device |-> device, access_token |-> access_token[1],
                                          number_measurements_internal |-> None])]

\* Backend::new: Err(MissingAuthentification) or Ok(Backend)
Backend_new(device, access_token, env) ==
    LET from_env == get_token_from_env_var(env)
    IN IF access_token = None /\ from_env.err # ""
       THEN [err |-> "MissingAuthentification", backend |-> None]
       ELSE [err |-> "",
             backend |-> Some([device |-> device,
                               access_token |-> IF access_token # None
                                                THEN access_token[1] ELSE from_env.value,
                               number_measurements_internal |-> None])]

\* _construct_headers: the Authorization header
construct_headers(token) == <<"Bearer", token>>

\* sub holds the arguments of Backend::new, the environment, its result, and the
\* Authorization headers of the requests the backend has sent
BackendInit ==
    /\ \E device \in Devices, access_token \in {None} \cup {Some(t) : t \in Tokens},
          env \in EnvStates :
          sub = [pc |-> "new", device |-> device, access_token |-> access_token, env |-> env,
                 err |-> "", backend |-> None, requests |-> <<>>]
    /\ call = CallIdle /\ ls = LsIdle /\ rr = RrIdle /\ poll = PollIdle

BackendNew ==
    /\ sub.pc = "new"
    /\ LET res == Backend_new(sub.device, sub.access_token, sub.env)
       IN sub' = [sub EXCEPT !.err = res.err, !.backend = res.backend,
                             !.pc = IF res.err # "" THEN "failed" ELSE "ready"]
    /\ UNCHANGED <<call, ls, rr, poll>>

\* _overwrite_number_of_measurements
BackendOverwriteNumberOfMeasurements ==
    /\ sub.pc = "ready"
    /\ \E number_measurements \in ShotCounts :
          sub' = [sub EXCEPT !.backend[1].number_measurements_internal =
                                Some(number_measurements)]
    /\ UNCHANGED <<call, ls, rr, poll>>

\* a request of get_results, abort_job, get_quantum_architecture or
\* submit_circuit_batch: .headers(_construct_headers(&self.access_token))
BackendRequest ==
    /\ sub.pc = "ready"
    /\ Len(sub.requests) < MaxRequests
    /\ sub' = [sub EXCEPT !.requests = Append(@, construct_headers(sub.backend[1].access_token))]
    /\ UNCHANGED <<call, ls, rr, poll>>

BackendNext ==
    \/ BackendNew
    \/ BackendOverwriteNumberOfMeasurements
    \/ BackendRequest

SpecBackend == BackendInit /\ [][BackendNext]_vars

\* ------------------------------------------------------------------ C30
\* C30 as claimed: Backend::new fails with MissingAuthentification exactly when
\* it gets no token argument and IQM_TOKEN is not set.
C30_FailsExactlyWhenUnset ==
    sub.pc \in {"failed", "ready"}
    => (sub.err = "MissingAuthentification"
        <=> (sub.access_token = None /\ ~sub.env.present))

\* C30 amended: Backend::new fails with MissingAuthentification, before any
\* request is sent, exactly when it gets no token argument and IQM_TOKEN is not
\* set or does not hold valid Unicode; with a token argument it succeeds whatever
\* the environment holds, and every request carries the argument as its bearer
\* token.
C30_TokenResolution ==
    sub.pc \in {"failed", "ready"}
    => /\ sub.err = "MissingAuthentification"
          <=> (sub.access_token = None /\ (~sub.env.present \/ ~sub.env.unicode))
       /\ sub.err # "" => (sub.requests = <<>> /\ sub.backend = None)
       /\ sub.access_token # None
          => /\ sub.err = ""
             /\ \A j \in 1..Len(sub.requests) :
                   sub.requests[j] = <<"Bearer", sub.access_token[1]>>

\* an explicit token was used for a request although IQM_TOKEN holds another one
C30_Witness ==
    /\ sub.pc = "ready"
    /\ sub.access_token # None
    /\ sub.env.present /\ sub.env.unicode
    /\ sub.env.value # sub.access_token[1]
    /\ Len(sub.requests) >= 1
    /\ sub.requests[1] = <<"Bearer", sub.access_token[1]>>

\* ------------------------------------------------------------------ backend.rs: run_circuit_batch
\* what the server holds for the job once it is ready
RunPayloads ==
    LET one == Some(<< <<1>> >>)
        ro0 == Entry(<<0>>, 1)
    IN {IqmRunResult(Some(<<Result(one, None)>>), <<Some(OnlyRo(ro0))>>),
        IqmRunResult(Some(<<Result(one, None), Result(None, one)>>),
                     <<Some(OnlyRo(ro0)), Some(OnlyRb(ro0))>>),
        IqmRunResult(Some(<<Result(one, None), Result(one, None)>>), <<Some(OnlyRo(ro0))>>),
        IqmRunResult(Some(<<Result(one, one)>>), <<Some(OnlyRo(ro0))>>),
        IqmRunResult(None, <<Some(OnlyRo(ro0))>>),
        IqmRunResult(Some(<<Result(one, None)>>), <<Some(OnlyRo(Entry(<<1>>, 1)))>>),
        IqmRunResult(Some(<<Result(one, None)>>), <<Some(OnlyRo(ro0)), None>>)}

\* errors of submit_circuit_batch
SubmitErrors == {"EmptyCircuit", "InvalidCircuit", "RegisterTooSmall", "NetworkError"}

RunOk(registers) == [kind |-> "Ok", registers |-> registers]
RunErr(kind) == [kind |-> kind, registers |-> None]

\* sub holds the position of run_circuit_batch and the value it returns
RunInit ==
    /\ sub = [pc |-> "submit", ret |-> None]
    /\ poll = PollIdle /\ rr = RrIdle
    /\ call = CallIdle /\ ls = LsIdle

\* let id = self.submit_circuit_batch(circuit_batch)?  -- the call fails
RunSubmitFails ==
    /\ sub.pc = "submit"
    /\ \E kind \in SubmitErrors : sub' = [sub EXCEPT !.pc = "returned", !.ret = Some(RunErr(kind))]
    /\ UNCHANGED <<call, ls, rr, poll>>

\* let id = self.submit_circuit_batch(circuit_batch)?  -- Ok(id); wait_for_results begins
RunSubmit ==
    /\ sub.pc = "submit"
    /\ sub' = [sub EXCEPT !.pc = "wait"]
    /\ poll' = [pc |-> "check", id |-> "job", elapsed |-> 0, requests |-> 0, sleeps |-> 0,
                replies |-> <<>>, result |-> PollRunning]
    /\ UNCHANGED <<call, ls, rr>>

\* let results = self.wait_for_results(id.clone())?  -- Err: the ? returns it;
\* a panic unwinds through run_circuit_batch
RunWaitFails ==
    /\ sub.pc = "wait"
    /\ poll.pc = "returned"
    /\ poll.result.kind # "Ok"
    /\ sub' = [sub EXCEPT !.pc = "returned", !.ret = Some(RunErr(poll.result.kind))]
    /\ UNCHANGED <<call, ls, rr, poll>>

\* let results = self.wait_for_results(id.clone())?  -- Ok(results);
\* results_to_registers(results, id) begins
RunWait ==
    /\ sub.pc = "wait"
    /\ poll.pc = "returned"
    /\ poll.result.kind = "Ok"
    /\ sub' = [sub EXCEPT !.pc = "registers"]
    /\ \E res \in RunPayloads :
          rr' = [results |-> res, id |-> poll.id, measured_qubits_map |-> EmptyMap,
                 bit_registers |-> [r \in RegNames |-> None], result |-> 0, done |-> {},
                 err |-> "", pc |-> "start"]
    /\ UNCHANGED <<call, ls, poll>>

\* results_to_registers(results, id): its value is the value of run_circuit_batch
RunReturn ==
    /\ sub.pc = "registers"
    /\ rr.pc = "returned"
    /\ sub' = [sub EXCEPT !.pc = "returned",
                          !.ret = Some(IF rr.err = "" THEN RunOk(Some(rr.bit_registers))
                                       ELSE RunErr(rr.err))]
    /\ UNCHANGED <<call, ls, rr, poll>>

RunNext ==
    \/ RunSubmitFails
    \/ RunSubmit
    \/ PollCheck
    \/ PollReady
    \/ PollFailed
    \/ PollAborted
    \/ PollPending
    \/ PollNetworkError
    \/ PollSleep
    \/ RunWaitFails
    \/ RunWait
    \/ ReassembleStart
    \/ ReassembleNextResult
    \/ ReassembleRegister
    \/ ReassembleResultDone
    \/ ReassembleReturn
    \/ RunReturn

SpecRun == RunInit /\ [][RunNext]_vars

\* ------------------------------------------------------------------ C31
\* the job reached Ready
ReachedReady == poll.pc = "returned" /\ poll.result.kind = "Ok"

\* every register of every circuit result was reassembled
AllReassembled ==
    /\ rr.pc = "returned" /\ rr.err = ""
    /\ \A c \in 1..Len(meas_results) : \A reg \in RegNames :
          meas_results[c][reg] # None => rr.bit_registers[reg] # None

\* polling ended in Failed, Aborted or timeout
PollingEndedBadly ==
    /\ poll.pc = "returned"
    /\ \/ poll.result.kind = "Timeout"
       \/ /\ poll.replies # <<>>
          /\ poll.replies[Len(poll.replies)].status \in {"failed", "aborted"}

\* reassembly of a register failed
ReassemblyFailed == rr.pc = "returned" /\ rr.err # ""

RunErrors ==
    SubmitErrors \cup {"JobFailed", "JobAborted", "Timeout", "NetworkError", "MetadataError",
                       "EmptyResult", "InvalidResults"}

\* C31: run_circuit_batch returns registers only when the job reached Ready and
\* every register of every circuit result was reassembled; when polling ends in
\* Failed, Aborted or timeout, or reassembly of a register fails, it returns an
\* error and none of the registers.
C31_NoPartialResult ==
    sub.pc = "returned"
    => LET ret == sub.ret[1]
       IN /\ ret.registers # None => (ReachedReady /\ AllReassembled)
          /\ (PollingEndedBadly \/ ReassemblyFailed)
             => (ret.kind \in RunErrors /\ ret.registers = None)

\* what does hold: whenever the call ends, by an error or by a panic, without
\* Ready and a complete reassembly, it hands back no register
C31_NoRegistersWithoutSuccess ==
    sub.pc = "returned"
    => LET ret == sub.ret[1]
       IN /\ ret.registers # None => (ReachedReady /\ AllReassembled /\ ret.kind = "Ok")
          /\ (PollingEndedBadly \/ ReassemblyFailed)
             => (ret.kind \in RunErrors \cup {"Panic"} /\ ret.registers = None)

PrepareDefinitions == {<<DefinitionBit("ro", len, TRUE)>> : len \in RegLens}

\* circuit.operations() are drawn from these
PrepareOps ==
    {MeasureQubit(q, "ro", i) : q \in Qubits, i \in 0..MaxRegLen}
    \cup {PragmaRepeatedMeasurement("ro", 1, m) : m \in QubitMappings}
    \cup {PragmaSetNumberOfMeasurements(1, "ro"), RotateXY(0, FALSE)}

\* sub holds the circuit and the verdict of validate_circuit, call the locals
\* of call_circuit at its return
PrepareInit ==
    /\ \E definitions \in PrepareDefinitions, device \in Devices :
       \E len \in 0..MaxCircuit : \E operations \in [1..len -> PrepareOps] :
          sub = [pc |-> "validate", device |-> device,
                 circuit |-> definitions \o operations, validation |-> ""]
    /\ call = CallIdle /\ ls = LsIdle /\ rr = RrIdle /\ poll = PollIdle

\* self.validate_circuit(circuit).map_err(..)?
PrepareValidate ==
    /\ sub.pc = "validate"
    /\ LET valid == validate_circuit(sub.device, sub.circuit)
       IN sub' = [sub EXCEPT !.validation = valid,
                             !.pc = IF valid # "" THEN "returned" ELSE "translate"]
    /\ UNCHANGED <<call, ls, rr, poll>>

\* call_circuit(circuit.iter(), self.device.number_qubits(), ..)
PrepareTranslate ==
    /\ sub.pc = "translate"
    /\ sub' = [sub EXCEPT !.pc = "returned"]
    /\ LET s == call_circuit(sub.circuit, sub.device.number_qubits, None)
       IN call' = [CallInit(sub.device.number_qubits, None) EXCEPT
                      !.ops = sub.circuit,
                      !.circuit_vec = s.circuit_vec,
                      !.number_measurements = s.number_measurements,
                      !.measured_qubits = s.measured_qubits,
                      !.measured_qubits_map = s.measured_qubits_map,
                      !.err = s.err,
                      !.pc = "returned"]
    /\ UNCHANGED <<ls, rr, poll>>

PrepareNext ==
    \/ PrepareValidate
    \/ PrepareTranslate

SpecPrepare == PrepareInit /\ [][PrepareNext]_vars

\* the circuit passed validate_circuit and call_circuit returned Ok
Prepared == sub.pc = "returned" /\ sub.validation = "" /\ call.pc = "returned" /\ call.err = ""

\* ------------------------------------------------------------------ C33
\* C33: for every circuit that passes validate_circuit and is translated, every
\* index in a register's index list of the MeasuredQubitsMap is smaller than the
\* register's declared length.
C33_IndicesInsideRegister ==
    Prepared
    => \A reg \in RegNames :
          LET entry == call.measured_qubits_map[reg]
          IN entry.def => \A j \in 1..Len(entry.idx) : entry.idx[j] < entry.len

\* ------------------------------------------------------------------ C34
\* C34: for every translated circuit and every register that has a measure
\* instruction, the register's index list in the MeasuredQubitsMap has as many
\* entries as the measure instruction has qubits.
C34_OneIndexPerMeasuredQubit ==
    Prepared
    => \A j \in 1..Len(call.circuit_vec) :
          IsMeasure(call.circuit_vec[j])
          => LET entry == call.measured_qubits_map[call.circuit_vec[j].key]
             IN entry.def /\ Len(entry.idx) = Len(call.circuit_vec[j].qubits)

\* ------------------------------------------------------------------ C36
\* C36: no register's index list in the MeasuredQubitsMap of a translated
\* circuit holds the same index twice.
C36_NoIndexTwice ==
    Prepared
    => \A reg \in RegNames :
          LET entry == call.measured_qubits_map[reg]
          IN entry.def
             => \A j, l \in 1..Len(entry.idx) : j # l => entry.idx[j] # entry.idx[l]

\* ------------------------------------------------------------------ C35
\* the measure instructions of the list that carry the key
MeasuresWithKey(circuit_vec, key) ==
    {j \in 1..Len(circuit_vec) : IsMeasure(circuit_vec[j]) /\ circuit_vec[j].key = key}

\* C35: after any sequence of operations processed by call_circuit the
\* instruction list holds at most one measure instruction per key.
C35_OneMeasurePerKey ==
    (call.pc = "returned" /\ call.err = "")
    => \A key \in RegNames : Cardinality(MeasuresWithKey(call.circuit_vec, key)) <= 1

\* ------------------------------------------------------------------ C37
\* the request was built
RequestBuilt == sub.pc \in {"client", "post", "response"} \/ (sub.pc = "returned" /\ sub.err = "")

\* C37: the shots field of the request built by submit_circuit_batch equals the
\* batch's shared shot count.
C37_ShotsFieldIsShotCount ==
    RequestBuilt => sub.number_measurements_set = {sub.shots}

\* ------------------------------------------------------------------ C38
\* the last status reply wait_for_results received
LastReply == poll.replies[Len(poll.replies)]

\* C38: wait_for_results returns a JobFailed error for every reply with status
\* Failed, with or without a failure message, and never ends by a panic.
C38_FailedReturnsJobFailed ==
    poll.pc = "returned"
    => /\ poll.result.kind # "Panic"
       /\ (poll.replies # <<>> /\ LastReply.status = "failed") => poll.result.kind = "JobFailed"

\* ------------------------------------------------------------------ C39
\* the scan takes one more operation of the kind
Scans(kind) ==
    /\ ls.pc = "loop"
    /\ Len(ls'.ops) = Len(ls.ops) + 1
    /\ ls'.ops[Len(ls'.ops)].k = kind

\* C39: from the initial state, with no Store before it, a Load is accepted and
\* moves the machine to FoundLoad; in FoundLoad a second Load is rejected and a
\* Store is accepted.
C39_LoadFromInitialState ==
    [][/\ (Scans("SingleExcitationLoad") /\ ls.state = "Zero")
          => (ls'.err = "" /\ ls'.state = "FoundLoad")
       /\ (Scans("SingleExcitationLoad") /\ ls.state = "FoundLoad")
          => ls'.err = "InvalidCircuit"
       /\ (Scans("SingleExcitationStore") /\ ls.state = "FoundLoad")
          => (ls'.err = "" /\ ls'.state = "FoundStore")]_vars

\* a circuit that begins with a Load, followed by the first Store, was accepted
C39_Witness ==
    /\ ls.pc = "returned" /\ ls.err = ""
    /\ Len(ls.ops) >= 2
    /\ ls.ops[1].k = "SingleExcitationLoad"
    /\ ls.ops[2].k = "SingleExcitationStore"
    /\ \A j \in 1..Len(ls.ops) : ls.ops[j].k = "SingleExcitationStore" => j >= 2

\* ------------------------------------------------------------------ C40
HasTopLevelLoop(circuit) == \E j \in 1..Len(circuit) : circuit[j].k = "PragmaLoop"

BatchHasLoop == \E a \in 1..Len(sub.circuit_batch) : HasTopLevelLoop(sub.circuit_batch[a])

\* C40: validate_circuit rejects every circuit with a top-level PragmaLoop, on
\* the resonator device and on the others, and submit_circuit_batch returns the
\* error for a batch that holds such a circuit before it translates or posts
\* anything.
C40_LoopRejected ==
    /\ \A a \in 1..Len(sub.circuit_batch) :
          HasTopLevelLoop(sub.circuit_batch[a])
          => validate_circuit(sub.device, sub.circuit_batch[a]) # ""
    /\ (BatchHasLoop /\ sub.pc # "validate")
       => /\ sub.pc = "returned"
          /\ sub.validation # "" /\ sub.err = sub.validation
          /\ sub.circuits = <<>> /\ sub.http_posts = 0 /\ sub.job_id = None

\* a batch whose first circuit is valid and whose second holds a loop was rejected
C40_Witness ==
    /\ sub.pc = "returned"
    /\ Len(sub.circuit_batch) = 2
    /\ validate_circuit(sub.device, sub.circuit_batch[1]) = ""
    /\ HasTopLevelLoop(sub.circuit_batch[2])
    /\ sub.err # ""

====
